---- MODULE Spec2Model ----
(***************************************************************************)
(* Reproducibility build pipeline of the notebook application.             *)
(*                                                                         *)
(* The artifact directory storage/notebooks/<id>/reproducibility of one    *)
(* document is a function from file names to file contents.  Texts are     *)
(* sequences of tokens, so that concatenation, emptiness and equality of   *)
(* texts are computed, not assumed.  Every stage call is one action; the   *)
(* outcomes of its child processes and of its filesystem operations are    *)
(* inputs of the action.                                                   *)
(***************************************************************************)
EXTENDS Integers, Sequences, FiniteSets, TLC

VARIABLES pipeline, files, dir, zip, last, calls, everRendered, given, answer,
          stores, runs, db

vars == <<pipeline, files, dir, zip, last, calls, everRendered, given, answer,
          stores, runs, db>>

\* Number of distinct non-empty document texts; text 0 is the empty text.
NumContents == 2

\* Number of stage calls (render, trace, diff) made on the document.
MaxCalls == 3

\* Number of cached builds made on the document.
MaxBuilds == 2

\* Length of the Dockerfiles given to the metrics extraction, in words.
MaxTokens == 4

Contents == 0..NumContents

\* Exit code _run_command reports for a child process that timed out.
TimeoutCode == 124

\* Exit code _run_command reports when starting the child process raised.
ExceptionCode == 1

----------------------------------------------------------------------------
(* Texts and files *)

NL == "\n"

EmptyText == <<>>

EmptyDir == [n \in {} |-> EmptyText]

Exists(d, name) == name \in DOMAIN d

\* open(path, "w").write(text): creates or replaces one file.
WriteFile(d, name, text) ==
    [n \in DOMAIN d \cup {name} |-> IF n = name THEN text ELSE d[n]]

\* shutil.copytree(tree, d, dirs_exist_ok=True): every file of the tree
\* replaces the file of the same name, the others stay.
CopyTree(tree, d) ==
    [n \in DOMAIN d \cup DOMAIN tree |-> IF n \in DOMAIN tree THEN tree[n] ELSE d[n]]

\* read_file: the text of the file, the empty text when it is absent.
ReadFile(d, name) == IF Exists(d, name) THEN d[name] ELSE EmptyText

IsJson(text) == Len(text) > 0 /\ text[1] = "json"

\* read_json: the parsed file, the empty object when absent or malformed.
ReadJson(d, name) ==
    IF Exists(d, name) /\ IsJson(d[name]) THEN d[name] ELSE EmptyText

IsSpace(tok) == tok \in {" ", NL}

RECURSIVE LStrip(_)
LStrip(s) == IF Len(s) > 0 /\ IsSpace(Head(s)) THEN LStrip(Tail(s)) ELSE s

RECURSIVE RStrip(_)
RStrip(s) ==
    IF Len(s) > 0 /\ IsSpace(s[Len(s)]) THEN RStrip(SubSeq(s, 1, Len(s) - 1)) ELSE s

\* str.strip()
Strip(s) == RStrip(LStrip(s))

\* The token that stands for the body of the non-empty document text c.
Body(c) == ToString(c)

\* The text of document c, as written to notebook.Rmd.
RmdText(c) == IF c = 0 THEN EmptyText ELSE <<"rmd", Body(c)>>

\* The HTML the rendering engine produces from document c.
HtmlOf(c) == <<"html", Body(c)>>

----------------------------------------------------------------------------
(* Pure helpers of the executors *)

\* Mutant of ComputeContentHash: the digest of a fixed text, not of the
\* content.
ComputeContentHash_ConstantDigest(c) == IF c = 0 THEN EmptyText ELSE <<"sha256", "fixed">>

\* _compute_content_hash: the empty digest for empty content, else SHA-256
\* (distinct texts have distinct digests, none of them empty).
ComputeContentHash(c) == IF c = 0 THEN EmptyText ELSE <<"sha256", Body(c)>>

\* Documents with an odd number hold a library()/require() call.
DetectPackages(c) == IF c = 0 THEN {} ELSE IF c % 2 = 1 THEN {"pkg"} ELSE {}

\* ReproducibilityAnalyzer.analyze(content or ""), a function of the text.
Analyze(c) == <<"analysis", Body(c)>>

\* Outcomes of one child process: it exits by itself, it outlives the
\* timeout, or it cannot be started (binary missing, permission denied).
ExitOutcomes ==
    { [kind |-> "exit", code |-> 0, out |-> <<"out">>, err |-> EmptyText],
      [kind |-> "exit", code |-> 1, out |-> <<"out">>, err |-> <<"err">>],
      [kind |-> "exit", code |-> TimeoutCode, out |-> EmptyText, err |-> <<"Timeout">>] }

TimeoutOutcome == [kind |-> "timeout", code |-> 0, out |-> EmptyText, err |-> EmptyText]

StartFailure == [kind |-> "exception", code |-> 0, out |-> EmptyText, err |-> <<"err">>]

ChildOutcomes == ExitOutcomes \cup {TimeoutOutcome, StartFailure}

\* _run_command: subprocess.run with the timeout; TimeoutExpired and any
\* other exception become a CompletedProcess.
RunCommand(o) ==
    CASE o.kind = "exit" ->
           [returncode |-> o.code, stdout |-> o.out, stderr |-> o.err]
      [] o.kind = "timeout" ->
           [returncode |-> TimeoutCode, stdout |-> EmptyText, stderr |-> <<"Timeout">>]
      [] OTHER ->
           [returncode |-> ExceptionCode, stdout |-> EmptyText, stderr |-> o.err]

\* Mutant of RenderPassed: only the generic failure code stops the stage.
RenderPassed_OnlyGenericFailure(render) == render.returncode # ExceptionCode

\* Both render callers go on after the rendering engine only when it exited
\* with code 0 (rmd_executor.py line 87, r_executor.py line 141).
RenderPassed(render) == render.returncode = 0

\* _error_response
ErrorResponse(msg, detail, analysis) ==
    [success |-> FALSE,
     error |-> <<msg, ":", NL>> \o detail,
     html |-> EmptyText,
     static_analysis |-> analysis]

----------------------------------------------------------------------------
(* The tracer's output tree *)

Descriptors == {"Dockerfile", "Makefile", "manifest.json"}

TreeHtml == "result/notebook.html"

\* The file the tracer writes under `name` when it traces document c.
TreeFile(name, c) ==
    CASE name = "manifest.json" -> <<"json", Body(c)>>
      [] name = TreeHtml -> <<"container-html", Body(c)>>
      [] OTHER -> <<name, Body(c)>>

\* The output trees the tracer can leave for document c: the build
\* descriptors (written together) or not, the rendered HTML or not.  The
\* empty tree stands also for a missing output directory.
Trees(c) ==
    { [n \in names |-> TreeFile(n, c)] :
        names \in {{}, Descriptors, {TreeHtml}, Descriptors \cup {TreeHtml}} }

\* With --result (the cached build) the tracer writes the rendered HTML to
\* the path given, outside its output tree.
TreesWithResultPath(c) == {t \in Trees(c) : ~(TreeHtml \in DOMAIN t)}

----------------------------------------------------------------------------
(* What one stage call leaves: the artifact directory, whether it exists,  *)
(* the packaged zip, the value returned (or the exception raised), the     *)
(* child processes started in order, and whether a workspace was created.  *)

Outcome(d, dx, z, res, procs, tmp) ==
    [files |-> d, dir |-> dx, zip |-> z, result |-> res, procs |-> procs, tmp |-> tmp]

\* An exception that leaves the call instead of a returned value.
Raised(what) == [exception |-> what]

IsRaised(res) == "exception" \in DOMAIN res

Returned(res) == "success" \in DOMAIN res

\* A call that has not come back: it waits for a child process that never
\* exits and that was started without a timeout.
Blocked == [blocked |-> TRUE]

InProgress(res) == "blocked" \in DOMAIN res

\* Mutant of WorkspaceLeft: the workspace is removed on return only.
WorkspaceLeft_UnlessRaised(o) == o.tmp /\ ~Returned(o.result)

\* with tempfile.TemporaryDirectory(dir="/tmp"): the workspace is removed
\* when the block is left, by return or by exception; it exists as long as
\* the call is inside the block.
WorkspaceLeft(o) == o.tmp /\ InProgress(o.result)

----------------------------------------------------------------------------
(* RExecutor.execute_rmd: the cached build *)

SavePoints == {"makedirs", "copytree", "html", "rmd", "hash"}

\* Mutant of CacheHit: the stored render must also be that of the content.
CacheHit_RenderOfContent(d, dx, c, readFails) ==
    /\ dx
    /\ Exists(d, ".content_hash")
    /\ ~readFails
    /\ Strip(d[".content_hash"]) = ComputeContentHash(c)
    /\ ReadFile(d, "notebook.html") = HtmlOf(c)

\* Mutant of CacheHit: the stored render is not looked at.
CacheHit_MarkerOnly(d, dx, c, readFails) ==
    /\ dx
    /\ Exists(d, ".content_hash")
    /\ ~readFails
    /\ Strip(d[".content_hash"]) = ComputeContentHash(c)

\* Lines 39-49: the marker exists, is readable, equals the digest, and the
\* stored render is not empty.
CacheHit(d, dx, c, readFails) ==
    /\ dx
    /\ Exists(d, ".content_hash")
    /\ ~readFails
    /\ Strip(d[".content_hash"]) = ComputeContentHash(c)
    /\ ReadFile(d, "notebook.html") # EmptyText

CachedResult(d, c) ==
    [success |-> TRUE,
     build_success |-> TRUE,
     html |-> ReadFile(d, "notebook.html"),
     dockerfile |-> ReadFile(d, "Dockerfile"),
     makefile |-> ReadFile(d, "Makefile"),
     manifest |-> ReadJson(d, "manifest.json"),
     logs |-> <<"Cached result (content unchanged)">>,
     detected_packages |-> DetectPackages(c),
     static_analysis |-> Analyze(c),
     cached |-> TRUE]

\* Mutant of SaveResults: the marker is never written.
SaveResults_NoMarker(d, c, html, tree, fail) ==
    LET d1 == IF DOMAIN tree # {} THEN CopyTree(tree, d) ELSE d
        d2 == WriteFile(d1, "notebook.html", html)
        d3 == WriteFile(d2, "notebook.Rmd", RmdText(c))
    IN  CASE fail = "copytree" -> d
          [] fail = "html" -> d1
          [] fail = "rmd" -> d2
          [] OTHER -> d3

\* Lines 193-207 up to the first failing filesystem operation `fail`
\* ("none": all of them succeed).  The operations, in order: copytree of the
\* output tree, notebook.html, notebook.Rmd, the marker.
SaveResults(d, c, html, tree, fail) ==
    LET d1 == IF DOMAIN tree # {} THEN CopyTree(tree, d) ELSE d
        d2 == WriteFile(d1, "notebook.html", html)
        d3 == WriteFile(d2, "notebook.Rmd", RmdText(c))
        d4 == WriteFile(d3, ".content_hash", ComputeContentHash(c))
    IN  CASE fail = "copytree" -> d
          [] fail = "html" -> d1
          [] fail = "rmd" -> d2
          [] fail = "hash" -> d3
          [] OTHER -> d4

BuildResult(d, c, html, r4r) ==
    [success |-> TRUE,
     build_success |-> (r4r.returncode = 0),
     html |-> html,
     dockerfile |-> ReadFile(d, "Dockerfile"),
     makefile |-> ReadFile(d, "Makefile"),
     manifest |-> ReadJson(d, "manifest.json"),
     logs |-> r4r.stdout \o r4r.stderr,
     detected_packages |-> DetectPackages(c),
     static_analysis |-> Analyze(c),
     cached |-> FALSE]

\* i: the inputs of the call.  cacheReadFails, tmpWriteFails: filesystem
\* errors; render, trace: child process outcomes; html: the rendering engine
\* left notebook.html; tree: the tracer's output tree; saveFail: the first
\* failing save operation.
ExecuteRmd(d, dx, z, c, i) ==
    LET pkgs == DetectPackages(c)
        p1 == IF pkgs # {} THEN <<"install">> ELSE <<>>
        p2 == p1 \o <<"render">>
        p3 == p2 \o <<"r4r">>
        render == RunCommand(i.render)
        html == IF i.html THEN HtmlOf(c) ELSE EmptyText
        r4r == RunCommand(i.trace)
        saved == SaveResults(d, c, html, i.tree, i.saveFail)
    IN  IF CacheHit(d, dx, c, i.cacheReadFails)
        THEN Outcome(d, dx, z, CachedResult(d, c), <<>>, FALSE)
        ELSE IF i.tmpWriteFails
        THEN Outcome(d, dx, z,
                     ErrorResponse("Failed to save Rmd file", <<"err">>, EmptyText),
                     <<>>, TRUE)
        ELSE IF ~RenderPassed(render)
        THEN Outcome(d, dx, z,
                     ErrorResponse("RMarkdown Render Failed",
                                   render.stderr \o <<NL>> \o render.stdout,
                                   Analyze(c)),
                     p2, TRUE)
        ELSE IF i.saveFail = "makedirs"
        THEN Outcome(d, dx, z, Raised(<<"err">>), p3, TRUE)
        ELSE IF i.saveFail \in SavePoints
        THEN Outcome(saved, TRUE, z,
                     ErrorResponse("Failed to copy result files", <<"err">>, EmptyText),
                     p3, TRUE)
        ELSE Outcome(saved, TRUE, z, BuildResult(saved, c, html, r4r), p3, TRUE)

----------------------------------------------------------------------------
(* RmdExecutor.execute: the plain render stage *)

\* installer outcomes: RPackageManager.install_packages calls subprocess.run
\* itself, without _run_command: a start failure is an exception, and there
\* is no timeout, so that TimeoutOutcome here is an installer that never
\* exits.
InstallOutcomes ==
    {o \in ExitOutcomes : o.code \in {0, 1}} \cup {StartFailure, TimeoutOutcome}

RmdFailPoints == {"tmp_write", "publish_html", "copy_rmd"}

RenderResult(c, html, render) ==
    [success |-> TRUE,
     html |-> html,
     detected_packages |-> DetectPackages(c),
     static_analysis |-> Analyze(c),
     logs |-> render.stdout]

\* i.install, i.render: child process outcomes; i.html: the rendering engine
\* left notebook.html; i.fail: the failing filesystem operation, if any.
\* get_notebook_dir (line 49) creates the artifact directory first.
RmdExecute(d, dx, z, c, i) ==
    LET pkgs == DetectPackages(c)
        p1 == IF pkgs # {} THEN <<"install">> ELSE <<>>
        p2 == p1 \o <<"render">>
        render == RunCommand(i.render)
        html == IF i.html THEN HtmlOf(c) ELSE EmptyText
        d1 == WriteFile(d, "notebook_local.html", html)
        d2 == WriteFile(d1, "notebook.Rmd", RmdText(c))
    IN  IF i.fail = "tmp_write"
        THEN Outcome(d, TRUE, z, Raised(<<"err">>), <<>>, TRUE)
        ELSE IF pkgs # {} /\ i.install.kind = "exception"
        THEN Outcome(d, TRUE, z, Raised(i.install.err), p1, TRUE)
        ELSE IF pkgs # {} /\ i.install.kind = "timeout"
        THEN Outcome(d, TRUE, z, Blocked, p1, TRUE)
        ELSE IF ~RenderPassed(render)
        THEN Outcome(d, TRUE, z,
                     ErrorResponse("RMarkdown Render Failed",
                                   render.stderr \o <<NL>> \o render.stdout,
                                   Analyze(c)),
                     p2, TRUE)
        ELSE IF i.fail = "publish_html"
        THEN Outcome(d, TRUE, z, Raised(<<"err">>), p2, TRUE)
        ELSE IF i.fail = "copy_rmd"
        THEN Outcome(d1, TRUE, z, Raised(<<"err">>), p2, TRUE)
        ELSE Outcome(d2, TRUE, z, RenderResult(c, html, render), p2, TRUE)

----------------------------------------------------------------------------
(* StorageManager.create_zip and find_html_file *)

NoZip == [exists |-> FALSE, members |-> {}]

\* os.walk hands over the file name without its directory.
Basename(path) ==
    CASE path = "result/notebook.html" -> "notebook.html"
      [] path = "result/.Rhistory" -> ".Rhistory"
      [] OTHER -> path

\* file.endswith(".zip")
ZipSuffixed(file) == file \in {"reproducibility_package.zip", "b.zip"}

\* file.startswith(".")
Hidden(file) == file \in {".content_hash", ".hidden", ".Rhistory"}

\* Mutant of ZipExcluded: the rule of RExecutor.create_reproducibility_zip,
\* which keeps the semantic diff.
ZipExcluded_KeepsDiff(path) == ZipSuffixed(Basename(path)) \/ Hidden(Basename(path))

\* Lines 119-124: zip files, hidden files and the semantic diff are skipped.
ZipExcluded(path) ==
    \/ ZipSuffixed(Basename(path))
    \/ Hidden(Basename(path))
    \/ Basename(path) = "semantic_diff.html"

CreateZip(d) ==
    LET names == {n \in DOMAIN d : ~ZipExcluded(n)}
    IN  [exists |-> TRUE, members |-> names]

HtmlSuffixed(name) ==
    name \in {"result/notebook.html", "notebook.html", "notebook_local.html",
              "notebook_container.html", "semantic_diff.html"}

\* find_html_file: the HTML files of a tree (the walk returns the first).
HtmlFiles(tree) == {n \in DOMAIN tree : HtmlSuffixed(n)}

----------------------------------------------------------------------------
(* R4RExecutor.execute: the dependency trace stage *)

\* The document whose text notebook.Rmd holds.
SourceOf(text) ==
    IF text = EmptyText THEN 0 ELSE CHOOSE c \in Contents : RmdText(c) = text

\* The document the source copy of the artifact directory holds.
StoredSource(d) == SourceOf(ReadFile(d, "notebook.Rmd"))

RunNotebookFirst == <<"Run notebook first to generate .Rmd">>

\* Mutant of SourcePresent: the local render is looked for instead.
SourcePresent_LocalRender(d) == Exists(d, "notebook_local.html")

\* Line 53: the source copy must exist.
SourcePresent(d) == Exists(d, "notebook.Rmd")

R4RFailPoints == {"copy_src", "metrics", "copytree", "copy_html"}

----------------------------------------------------------------------------
(* R4RExecutor._collect_r4r_metrics.  A Dockerfile is the sequence of its  *)
(* words, the newline being a word of its own; sorted lists without        *)
(* duplicates are sets.                                                    *)

Min(S) == CHOOSE x \in S : \A y \in S : x <= y

IGNORE_LIST ==
    {"RUN", "apt-get", "install", "update", "upgrade", "&&", "\\", "sudo", "-y",
     "--no-install-recommends", "rm", "-rf", "/var/lib/apt/lists/*"}

\* clean_part.startswith("-")
IsFlag(word) == word \in {"-y", "--no-install-recommends", "-rf"}

\* clean_part.split(":")[0]
BeforeColon(word) == IF word = "libxml2:amd64" THEN "libxml2" ELSE word

\* clean_part.split("=")[0]
BeforeEquals(word) == IF word = "pandoc=3.1.3" THEN "pandoc" ELSE word

\* Lines 189-206: the library names of one captured argument list.
CleanParts(words) ==
    {BeforeEquals(BeforeColon(words[k])) :
       k \in {x \in 1..Len(words) : ~IsFlag(words[x]) /\ ~(words[x] \in IGNORE_LIST)}}

\* content.replace("\\\n", " "): a continuation is white space.
Flatten(text) == SelectSeq(text, LAMBDA word : word # "\\\n")

\* re.findall(r"apt-get install.*?-y\s+(.*?)(?:&&|;|\n|$)") from word pos
\* on: the leftmost "apt-get install" with a "-y" on the same line that is
\* followed by white space; the white space after it, newlines included, is
\* skipped; the capture ends before the next "&&", ";", newline or the end.
RECURSIVE FindInstalls(_, _)
FindInstalls(t, pos) ==
    LET n == Len(t)
        SameLine(a, b) == \A x \in a..b : t[x] # NL
        Yes(i) == {j \in (i + 2)..(n - 1) : t[j] = "-y" /\ SameLine(i + 2, j - 1)}
        starts == {i \in pos..(n - 1) :
                     t[i] = "apt-get" /\ t[i + 1] = "install" /\ Yes(i) # {}}
    IN  IF starts = {} THEN {}
        ELSE LET j == Min(Yes(Min(starts)))
                 k == Min({x \in (j + 1)..(n + 1) : x = n + 1 \/ t[x] # NL})
                 m == Min({x \in k..(n + 1) : x = n + 1 \/ t[x] \in {"&&", ";", NL}})
             IN  CleanParts(SubSeq(t, k, m - 1))
                   \cup (IF m >= n THEN {} ELSE FindInstalls(t, m + 1))

\* Lines 176-208
SystemLibs(dockerfile) == FindInstalls(Flatten(dockerfile), 1)

\* Lines 147-153: one "name (version)" for every remotes::install_version
\* call of the install script.
InstallVersionCalls ==
    {"remotes::install_version('ggplot2', '3.4.0')",
     "remotes::install_version('dplyr', '1.1.0')"}

PackageSpec(call) ==
    IF call = "remotes::install_version('ggplot2', '3.4.0')"
    THEN "ggplot2 (3.4.0)" ELSE "dplyr (1.1.0)"

RPackages(script) ==
    {PackageSpec(script[k]) : k \in {x \in 1..Len(script) : script[x] \in InstallVersionCalls}}

\* A file of the output tree as the extraction meets it.
Absent == [state |-> "absent", text |-> EmptyText]

Readable(text) == [state |-> "readable", text |-> text]

Unreadable == [state |-> "unreadable", text |-> EmptyText]

\* An archive tarfile.open cannot read.
Malformed == [state |-> "malformed", text |-> EmptyText]

\* _collect_r4r_metrics: out.script, out.dockerfile, out.archive are the
\* files install_r_packages.R, Dockerfile and archive.tar (the text of the
\* archive is the sequence of its members).  open() of the script and of the
\* Dockerfile is not guarded; tarfile.open is.
CollectR4RMetrics(out) ==
    IF out.script.state = "unreadable" \/ out.dockerfile.state = "unreadable"
    THEN Raised(<<"err">>)
    ELSE [r_packages |-> IF out.script.state = "readable"
                         THEN RPackages(out.script.text) ELSE {},
          system_libs |-> IF out.dockerfile.state = "readable"
                          THEN SystemLibs(out.dockerfile.text) ELSE {},
          files_accessed |-> IF out.archive.state = "readable"
                             THEN Len(out.archive.text) ELSE 0]

\* The output tree of the stage as the extraction meets it; unreadable: the
\* Dockerfile cannot be opened.
TreeState(tree, unreadable) ==
    [script |-> Absent,
     dockerfile |-> IF ~Exists(tree, "Dockerfile") THEN Absent
                    ELSE IF unreadable THEN Unreadable
                    ELSE Readable(tree["Dockerfile"]),
     archive |-> Absent]

CollectMetrics(tree) == CollectR4RMetrics(TreeState(tree, FALSE))

----------------------------------------------------------------------------

TraceResult(d, tree, r4r, zipped) ==
    [success |-> TRUE,
     build_success |-> (r4r.returncode = 0),
     r4r_data |-> CollectMetrics(tree),
     dockerfile |-> ReadFile(d, "Dockerfile"),
     makefile |-> ReadFile(d, "Makefile"),
     manifest |-> ReadJson(d, "manifest.json"),
     logs |-> r4r.stdout,
     package_ready |-> zipped]

\* Mutant of TracePassed: the tracer's exit code is ignored, as the cached
\* build does.
TracePassed_Always(r4r) == TRUE

\* Lines 91-96: the stage goes on after the tracer only when it exited 0.
TracePassed(r4r) == r4r.returncode = 0

\* i.trace: the tracer's outcome; i.tree: its output tree; i.fail: the
\* failing filesystem operation, if any; i.zipFails: create_zip caught an
\* error.  get_notebook_dir (line 51) creates the artifact directory first.
R4RExecute(d, dx, z, i) ==
    LET r4r == RunCommand(i.trace)
        d1 == IF DOMAIN i.tree # {} THEN CopyTree(i.tree, d) ELSE d
        found == HtmlFiles(i.tree)
        d2 == IF found # {}
              THEN WriteFile(d1, "notebook_container.html",
                             i.tree[CHOOSE n \in found : TRUE])
              ELSE d1
        z2 == IF i.zipFails THEN z ELSE CreateZip(d2)
    IN  IF ~SourcePresent(d)
        THEN Outcome(d, TRUE, z, [success |-> FALSE, error |-> RunNotebookFirst],
                     <<>>, FALSE)
        ELSE IF i.fail = "copy_src"
        THEN Outcome(d, TRUE, z, Raised(<<"err">>), <<>>, TRUE)
        ELSE IF ~TracePassed(r4r)
        THEN Outcome(d, TRUE, z,
                     [success |-> FALSE,
                      error |-> <<"r4r failed", ":", NL>> \o r4r.stderr,
                      logs |-> r4r.stdout \o r4r.stderr],
                     <<"r4r">>, TRUE)
        ELSE IF IsRaised(CollectR4RMetrics(TreeState(i.tree, i.fail = "metrics")))
        THEN Outcome(d, TRUE, z, Raised(<<"err">>), <<"r4r">>, TRUE)
        ELSE IF i.fail = "copytree"
        THEN Outcome(d, TRUE, z, Raised(<<"err">>), <<"r4r">>, TRUE)
        ELSE IF i.fail = "copy_html" /\ found # {}
        THEN Outcome(d1, TRUE, z, Raised(<<"err">>), <<"r4r">>, TRUE)
        ELSE Outcome(d2, TRUE, z2, TraceResult(d2, i.tree, r4r, ~i.zipFails),
                     <<"r4r">>, TRUE)

----------------------------------------------------------------------------
(* RDiffExecutor.execute: the semantic diff stage *)

LocalMissing == <<"Local HTML not found. Run notebook first.">>

ContainerMissing == <<"Container HTML not found. Generate package first.">>

BinaryMissing == <<"r-diff binary not found">>

\* Mutant of DiffPrecondition: the binary is looked for first.
DiffPrecondition_BinaryFirst(d, binary) ==
    IF ~binary THEN BinaryMissing
    ELSE IF ~Exists(d, "notebook_local.html") THEN LocalMissing
    ELSE IF ~Exists(d, "notebook_container.html") THEN ContainerMissing
    ELSE EmptyText

\* Lines 49-62: the first precondition that fails, as its error; the empty
\* text when all three hold.
DiffPrecondition(d, binary) ==
    IF ~Exists(d, "notebook_local.html") THEN LocalMissing
    ELSE IF ~Exists(d, "notebook_container.html") THEN ContainerMissing
    ELSE IF ~binary THEN BinaryMissing
    ELSE EmptyText

\* The comparison the diff tool writes for two renders.
DiffOf(local, container) == <<"diff">> \o local \o container

\* i.binary: the diff binary exists at its path; i.diff: its outcome;
\* i.output: it left the output file; i.writeFails: publishing fails.
RDiffExecute(d, dx, z, i) ==
    LET res == RunCommand(i.diff)
        html == DiffOf(d["notebook_local.html"], d["notebook_container.html"])
        unmet == DiffPrecondition(d, i.binary)
    IN  IF unmet # EmptyText
        THEN Outcome(d, TRUE, z, [success |-> FALSE, error |-> unmet], <<>>, FALSE)
        ELSE IF res.returncode # 0 \/ ~i.output
        THEN Outcome(d, TRUE, z,
                     [success |-> FALSE,
                      error |-> <<"r-diff failed", ":", NL>> \o res.stderr,
                      logs |-> res.stdout \o res.stderr],
                     <<"r-diff">>, TRUE)
        ELSE IF i.writeFails
        THEN Outcome(d, TRUE, z, Raised(<<"err">>), <<"r-diff">>, TRUE)
        ELSE Outcome(WriteFile(d, "semantic_diff.html", html), TRUE, z,
                     [success |-> TRUE, diff_html |-> html, logs |-> res.stdout],
                     <<"r-diff">>, TRUE)

----------------------------------------------------------------------------------------------------------------------------------------
(* State machine: calls on one document, one after the other.  `last` is   *)
(* the record of the latest call: its operation, the document text given   *)
(* (for trace: the text of the source copy), the outcome of each tool it   *)
(* started, whether the diff binary was present, the filesystem fault it   *)
(* met, and what it returned.  everRendered: some RmdExecutor.execute call *)
(* has returned success.                                                   *)

NoChild == [kind |-> "none", code |-> 0, out |-> EmptyText, err |-> EmptyText]

Started(o, name) == \E k \in 1..Len(o.procs) : o.procs[k] = name

Call(op, c, in, o) ==
    [op |-> op, content |-> c,
     install |-> IF Started(o, "install") THEN in.install ELSE NoChild,
     render |-> IF Started(o, "render") THEN in.render ELSE NoChild,
     trace |-> IF Started(o, "r4r") THEN in.trace ELSE NoChild,
     diff |-> IF Started(o, "r-diff") THEN in.diff ELSE NoChild,
     binary |-> in.binary, fault |-> in.fault,
     result |-> o.result, procs |-> o.procs, tmp |-> o.tmp,
     workspace |-> WorkspaceLeft(o),
     output |-> Started(o, "r-diff") /\ in.output,
     tree |-> IF Started(o, "r4r") THEN in.tree ELSE EmptyDir]

NoTools == [install |-> NoChild, render |-> NoChild, trace |-> NoChild, diff |-> NoChild,
            binary |-> TRUE, fault |-> "none", output |-> FALSE, tree |-> EmptyDir]

\* The one notebook the requests of the API layer are about.
NotebookIds == {1}

\* The tables Notebook, Execution and ReproducibilityAnalysis without a row.
EmptyDb ==
    [notebooks |-> [id \in NotebookIds |-> [state |-> "missing"]],
     executions |-> [id \in NotebookIds |-> 0],
     analysis |-> [id \in NotebookIds |-> "none"]]

\* Nothing handed to the metrics extraction or to the zip packaging.
NoFiles == [kind |-> "none"]

NoAnswer == [kind |-> "none"]

\* No overlapping runs.
NoStores == <<>>

NoRuns == <<>>

\* The document is built either by the cached build (RExecutor) or by the
\* three stages the API layer calls.
Init ==
    /\ pipeline \in {"build", "stages"}
    /\ files = EmptyDir
    /\ dir = FALSE
    /\ zip = NoZip
    /\ last = [op |-> "none", content |-> 0, install |-> NoChild, render |-> NoChild,
               trace |-> NoChild, diff |-> NoChild, binary |-> TRUE, fault |-> "none",
               result |-> [success |-> TRUE], procs |-> <<>>, tmp |-> FALSE,
               workspace |-> FALSE, output |-> FALSE,
               tree |-> EmptyDir]
    /\ calls = 0
    /\ everRendered = FALSE
    /\ given = NoFiles
    /\ answer = NoAnswer
    /\ stores = NoStores
    /\ runs = NoRuns
    /\ db = EmptyDb

\* The calls on the document are made one after the other: none is made
\* while the latest has not come back.
Apply(op, c, in, o) ==
    /\ calls < MaxCalls
    /\ ~InProgress(last.result)
    /\ calls' = calls + 1
    /\ UNCHANGED <<pipeline, given, answer, stores, runs, db>>
    /\ files' = o.files
    /\ dir' = o.dir
    /\ zip' = o.zip
    /\ last' = Call(op, c, in, o)
    /\ everRendered' = (everRendered \/ (op = "render" /\ Returned(o.result) /\ o.result.success))

Failed(o) == RunCommand(o).returncode # 0

builds == IF pipeline = "build" THEN calls ELSE 0

Exit0 == CHOOSE o \in ExitOutcomes : o.code = 0

NoInput ==
    [cacheReadFails |-> FALSE, tmpWriteFails |-> FALSE, render |-> TimeoutOutcome,
     html |-> FALSE, trace |-> TimeoutOutcome, tree |-> EmptyDir, saveFail |-> "none"]

Rendered == [NoInput EXCEPT !.render = Exit0]

\* The inputs of a build that does not hit the cache, those that cannot make
\* a difference left out: no tool outcome after a failed write of the
\* workspace copy or a failed render; with a failing save operation, only
\* the inputs of the operations before it and two tracer outcomes.
MissInputs(c) ==
    LET traced == {TimeoutOutcome, Exit0}
        trees == TreesWithResultPath(c)
    IN  {[NoInput EXCEPT !.tmpWriteFails = TRUE]}
        \cup {[NoInput EXCEPT !.render = r] : r \in {o \in ChildOutcomes : Failed(o)}}
        \cup {[Rendered EXCEPT !.html = h, !.trace = t, !.tree = tr] :
                h \in BOOLEAN, t \in ChildOutcomes, tr \in trees}
        \cup {[Rendered EXCEPT !.saveFail = "makedirs", !.trace = t] : t \in traced}
        \cup {[Rendered EXCEPT !.saveFail = "copytree", !.trace = t, !.tree = tr] :
                t \in traced, tr \in trees \ {EmptyDir}}
        \cup {[Rendered EXCEPT !.saveFail = "html", !.trace = t, !.tree = tr] :
                t \in traced, tr \in trees}
        \cup {[Rendered EXCEPT !.saveFail = f, !.html = h, !.trace = t, !.tree = tr] :
                f \in {"rmd", "hash"}, h \in BOOLEAN, t \in traced, tr \in trees}

\* Where the cache would hit, either it does or reading it fails.
BuildInputs(d, dx, c) ==
    IF CacheHit(d, dx, c, FALSE)
    THEN {NoInput} \cup {[i EXCEPT !.cacheReadFails = TRUE] : i \in MissInputs(c)}
    ELSE MissInputs(c)

BuildFault(i) ==
    IF i.cacheReadFails THEN "cache_read"
    ELSE IF i.tmpWriteFails THEN "tmp_write"
    ELSE i.saveFail

\* RExecutor.execute_rmd(content, notebook_id)
Build ==
    /\ pipeline = "build"
    /\ builds < MaxBuilds
    /\ \E c \in Contents :
         \E i \in BuildInputs(files, dir, c) :
           Apply("build", c,
                 [NoTools EXCEPT !.render = i.render, !.trace = i.trace,
                                 !.fault = BuildFault(i)],
                 ExecuteRmd(files, dir, zip, c, i))

\* RmdExecutor.execute(content, notebook_id).  Inputs that cannot make a
\* difference are left out: an installer outcome without packages, the
\* publishing faults after a failed render.
Render ==
    /\ pipeline = "stages"
    /\ \E c \in Contents, ro \in ChildOutcomes :
         \E io \in IF DetectPackages(c) = {} THEN {Exit0}
                    ELSE IF ro = Exit0 THEN InstallOutcomes
                    ELSE InstallOutcomes \ {StartFailure, TimeoutOutcome},
            h \in IF Failed(ro) THEN {FALSE} ELSE BOOLEAN,
            f \in IF Failed(ro) THEN {"none", "tmp_write"}
                  ELSE {"none"} \cup RmdFailPoints :
           Apply("render", c,
                 [NoTools EXCEPT !.install = io, !.render = ro,
                                 !.fault = IF f # "tmp_write" /\ io.kind = "exception"
                                           THEN "install" ELSE f],
                 RmdExecute(files, dir, zip, c,
                            [install |-> io, render |-> ro, html |-> h, fail |-> f]))

\* R4RExecutor.execute(notebook_id)
Trace ==
    /\ pipeline = "stages"
    /\ \E to \in ChildOutcomes :
         \E tree \in IF Failed(to) THEN {EmptyDir} ELSE Trees(StoredSource(files)),
            f \in IF Failed(to) THEN {"none", "copy_src"}
                  ELSE {"none"} \cup R4RFailPoints,
            zf \in IF Failed(to) THEN {FALSE} ELSE BOOLEAN :
           /\ f = "copy_html" => TreeHtml \in DOMAIN tree
           /\ f = "metrics" => "Dockerfile" \in DOMAIN tree
           /\ zf => f = "none"
           /\ Apply("trace", StoredSource(files),
                    [NoTools EXCEPT !.trace = to, !.tree = tree,
                                    !.fault = IF zf THEN "zip" ELSE f],
                    R4RExecute(files, dir, zip,
                               [trace |-> to, tree |-> tree, fail |-> f,
                                zipFails |-> zf]))

\* RDiffExecutor.execute(notebook_id)
Diff ==
    /\ pipeline = "stages"
    /\ \E b \in BOOLEAN, do \in ChildOutcomes, out \in BOOLEAN, wf \in BOOLEAN :
         /\ ~b => (do = TimeoutOutcome /\ ~out)
         /\ wf => (~Failed(do) /\ out)
         /\ Apply("diff", StoredSource(files),
                  [NoTools EXCEPT !.diff = do, !.binary = b, !.output = out,
                                  !.fault = IF wf THEN "write" ELSE "none"],
                  RDiffExecute(files, dir, zip,
                               [binary |-> b, diff |-> do, output |-> out,
                                writeFails |-> wf]))

Next == Build \/ Render \/ Trace \/ Diff

Spec == Init /\ [][Next]_vars

----------------------------------------------------------------------------
(* The metrics extraction and the zip packaging on their own, over the     *)
(* output trees and the artifact directories they can be handed.           *)

Words ==
    {"RUN", "apt-get", "install", "-y", "curl", "libxml2:amd64", "pandoc=3.1.3",
     "&&", NL}

\* The Dockerfiles of at most MaxTokens words.
Dockerfiles == UNION {[1..n -> Words] : n \in 0..MaxTokens}

\* RUN apt-get install -y libxml2:amd64 pandoc=3.1.3 curl
ExampleDockerfile ==
    <<"RUN", "apt-get", "install", "-y", "libxml2:amd64", "pandoc=3.1.3", "curl">>

\* The same with the arguments on a continuation line and a second command.
ContinuedDockerfile ==
    <<"RUN", "apt-get", "install", "-y", "\\\n", "libxml2:amd64", "&&", "rm", "-rf",
      "/var/lib/apt/lists/*">>

Scripts ==
    {<<>>, <<"# packages">>,
     <<"remotes::install_version('ggplot2', '3.4.0')">>,
     <<"remotes::install_version('dplyr', '1.1.0')", "# end",
       "remotes::install_version('ggplot2', '3.4.0')">>}

Archives == {<<>>, <<"member">>, <<"member", "member">>}

OutputTrees ==
    {[kind |-> "tree", script |-> Absent, dockerfile |-> Readable(t), archive |-> Absent] :
       t \in Dockerfiles}
    \cup {[kind |-> "tree", script |-> s, dockerfile |-> d, archive |-> a] :
            s \in {Absent, Unreadable} \cup {Readable(t) : t \in Scripts},
            d \in {Absent, Unreadable, Readable(ExampleDockerfile),
                   Readable(ContinuedDockerfile)},
            a \in {Absent, Unreadable, Malformed} \cup {Readable(t) : t \in Archives}}

ArtifactNames ==
    {"a.html", "b.zip", ".hidden", "semantic_diff.html", ".content_hash",
     "notebook.Rmd", "result/notebook.html", "result/.Rhistory"}

ArtifactDirs ==
    {[kind |-> "dir", files |-> [n \in names |-> <<"text">>]] :
       names \in SUBSET ArtifactNames}

InitExtract ==
    /\ pipeline = "extract"
    /\ files = EmptyDir
    /\ dir = FALSE
    /\ zip = NoZip
    /\ last = [op |-> "none", content |-> 0, install |-> NoChild, render |-> NoChild,
               trace |-> NoChild, diff |-> NoChild, binary |-> TRUE, fault |-> "none",
               result |-> [success |-> TRUE], procs |-> <<>>, tmp |-> FALSE,
               workspace |-> FALSE, output |-> FALSE,
               tree |-> EmptyDir]
    /\ calls = 0
    /\ everRendered = FALSE
    /\ given \in OutputTrees \cup ArtifactDirs
    /\ answer = NoAnswer
    /\ stores = NoStores
    /\ runs = NoRuns
    /\ db = EmptyDb

\* R4RExecutor._collect_r4r_metrics(r4r_output_dir)
Collect ==
    /\ given.kind = "tree" /\ answer = NoAnswer
    /\ answer' = [kind |-> "metrics", value |-> CollectR4RMetrics(given)]
    /\ UNCHANGED <<pipeline, files, dir, zip, last, calls, everRendered, given,
                   stores, runs, db>>

\* StorageManager.create_zip(notebook_id) on an existing artifact directory
Zip ==
    /\ given.kind = "dir" /\ answer = NoAnswer
    /\ answer' = [kind |-> "zip", value |-> CreateZip(given.files)]
    /\ UNCHANGED <<pipeline, files, dir, zip, last, calls, everRendered, given,
                   stores, runs, db>>

NextExtract == Collect \/ Zip

SpecExtract == InitExtract /\ [][NextExtract]_vars

----------------------------------------------------------------------------
(* Overlapping runs.  Two threads of the server each make one stage call,  *)
(* on the same document or on two; every access of a call to the storage   *)
(* directory is one step, and what a call does in its own workspace (the   *)
(* child processes, which succeed here) is part of its next step.          *)

Documents == {1, 2}

Threads == {1, 2}

\* Mutant of NotebookDir: one directory for all documents.
NotebookDir_Shared(id) == 1

\* storage/notebooks/<id>/reproducibility, with the zip next to it: the
\* storage of a document is named by its id.
NotebookDir(id) == id

EmptyStore == [files |-> EmptyDir, dir |-> FALSE, zip |-> NoZip]

\* The storage of a document rendered before (text 1).
RenderedStore ==
    [files |-> WriteFile(WriteFile(EmptyDir, "notebook_local.html", HtmlOf(1)),
                         "notebook.Rmd", RmdText(1)),
     dir |-> TRUE, zip |-> NoZip]

\* The tracer's output tree in the cached build and in the trace stage.
BuildTree(c) == [n \in Descriptors |-> TreeFile(n, c)]

TraceTree(c) == [n \in Descriptors \cup {TreeHtml} |-> TreeFile(n, c)]

\* The first step of a call.
FirstStep(op) ==
    CASE op = "build" -> "check"
      [] op = "render" -> "mkdir"
      [] OTHER -> "precheck"

\* The calls thread may make on document id, whose storage is st.
Starts(st, id) ==
    {[op |-> op, doc |-> id, content |-> c, pc |-> FirstStep(op), hit |-> FALSE,
      before |-> st] :
       op \in {"build", "render"}, c \in Contents}
    \cup {[op |-> "trace", doc |-> id, content |-> 0, pc |-> "precheck",
            hit |-> FALSE, before |-> st]}

\* One step of RExecutor.execute_rmd on the storage st: the cache check
\* (lines 39-65), then the save operations of lines 193-207 one by one.
BuildAdvance(st, r) ==
    CASE r.pc = "check" ->
           IF CacheHit(st.files, st.dir, r.content, FALSE)
           THEN [store |-> st, run |-> [r EXCEPT !.pc = "done", !.hit = TRUE]]
           ELSE [store |-> st, run |-> [r EXCEPT !.pc = "makedirs"]]
      [] r.pc = "makedirs" ->
           [store |-> [st EXCEPT !.dir = TRUE], run |-> [r EXCEPT !.pc = "copytree"]]
      [] r.pc = "copytree" ->
           [store |-> [st EXCEPT !.files = CopyTree(BuildTree(r.content), @)],
            run |-> [r EXCEPT !.pc = "html"]]
      [] r.pc = "html" ->
           [store |-> [st EXCEPT !.files = WriteFile(@, "notebook.html", HtmlOf(r.content))],
            run |-> [r EXCEPT !.pc = "rmd"]]
      [] r.pc = "rmd" ->
           [store |-> [st EXCEPT !.files = WriteFile(@, "notebook.Rmd", RmdText(r.content))],
            run |-> [r EXCEPT !.pc = "hash"]]
      [] OTHER ->
           [store |-> [st EXCEPT !.files = WriteFile(@, ".content_hash",
                                                     ComputeContentHash(r.content))],
            run |-> [r EXCEPT !.pc = "done"]]

\* One step of RmdExecutor.execute: get_notebook_dir (line 49), write_file
\* of the local render (line 96), the copy of the source (line 99).
RenderAdvance(st, r) ==
    CASE r.pc = "mkdir" ->
           [store |-> [st EXCEPT !.dir = TRUE], run |-> [r EXCEPT !.pc = "local_html"]]
      [] r.pc = "local_html" ->
           [store |-> [st EXCEPT !.files = WriteFile(@, "notebook_local.html",
                                                     HtmlOf(r.content))],
            run |-> [r EXCEPT !.pc = "rmd"]]
      [] OTHER ->
           [store |-> [st EXCEPT !.files = WriteFile(@, "notebook.Rmd", RmdText(r.content))],
            run |-> [r EXCEPT !.pc = "done"]]

\* One step of R4RExecutor.execute: get_notebook_dir and the test of the
\* source copy (lines 51-54), its copy into the workspace (line 58), the
\* copytree (line 103), the container render (lines 106-110), the zip
\* (line 113).
TraceAdvance(st, r) ==
    CASE r.pc = "precheck" ->
           [store |-> [st EXCEPT !.dir = TRUE],
            run |-> [r EXCEPT !.pc = IF SourcePresent(st.files) THEN "copy_src" ELSE "done"]]
      [] r.pc = "copy_src" ->
           [store |-> st,
            run |-> [r EXCEPT !.pc = "copytree", !.content = StoredSource(st.files)]]
      [] r.pc = "copytree" ->
           [store |-> [st EXCEPT !.files = CopyTree(TraceTree(r.content), @)],
            run |-> [r EXCEPT !.pc = "container_html"]]
      [] r.pc = "container_html" ->
           [store |-> [st EXCEPT !.files = WriteFile(@, "notebook_container.html",
                                                     TreeFile(TreeHtml, r.content))],
            run |-> [r EXCEPT !.pc = "zip"]]
      [] OTHER ->
           [store |-> [st EXCEPT !.zip = CreateZip(st.files)],
            run |-> [r EXCEPT !.pc = "done"]]

\* Mutant of Runnable: the calls on one document are serialized.
Runnable_Serialized(rs, t) ==
    /\ rs[t].pc # "done"
    /\ rs[t].pc = FirstStep(rs[t].op) =>
         \A u \in Threads \ {t} :
           NotebookDir(rs[u].doc) = NotebookDir(rs[t].doc)
           => rs[u].pc \in {FirstStep(rs[u].op), "done"}

\* A thread inside a call goes on whatever the other thread does: no call
\* takes a lock or waits for another.
Runnable(rs, t) == rs[t].pc # "done"

InitOverlap ==
    /\ pipeline = "overlap"
    /\ files = EmptyDir
    /\ dir = FALSE
    /\ zip = NoZip
    /\ last = [op |-> "none", content |-> 0, install |-> NoChild, render |-> NoChild,
               trace |-> NoChild, diff |-> NoChild, binary |-> TRUE, fault |-> "none",
               result |-> [success |-> TRUE], procs |-> <<>>, tmp |-> FALSE,
               workspace |-> FALSE, output |-> FALSE,
               tree |-> EmptyDir]
    /\ calls = 0
    /\ everRendered = FALSE
    /\ given = NoFiles
    /\ answer = NoAnswer
    /\ stores \in [Documents -> {EmptyStore, RenderedStore}]
    /\ runs \in [Threads -> UNION {Starts(stores[NotebookDir(id)], id) : id \in Documents}]
    /\ db = EmptyDb

Advance(t, a) ==
    /\ Runnable(runs, t)
    /\ stores' = [stores EXCEPT ![NotebookDir(runs[t].doc)] = a.store]
    /\ runs' = [runs EXCEPT ![t] = a.run]
    /\ UNCHANGED <<pipeline, files, dir, zip, last, calls, everRendered, given, answer,
                   db>>

BuildStep(t) ==
    /\ runs[t].op = "build"
    /\ Advance(t, BuildAdvance(stores[NotebookDir(runs[t].doc)], runs[t]))

RenderStep(t) ==
    /\ runs[t].op = "render"
    /\ Advance(t, RenderAdvance(stores[NotebookDir(runs[t].doc)], runs[t]))

TraceStep(t) ==
    /\ runs[t].op = "trace"
    /\ Advance(t, TraceAdvance(stores[NotebookDir(runs[t].doc)], runs[t]))

Step(t) == BuildStep(t) \/ RenderStep(t) \/ TraceStep(t)

NextOverlap == \E t \in Threads : Step(t)

SpecOverlap == InitOverlap /\ [][NextOverlap]_vars

----------------------------------------------------------------------------
(* Properties of the cached build *)

\* The tool was started and did not exit with code 0.
ToolFailed(o) == o.kind # "none" /\ Failed(o)

ToolSucceeded(o) == o.kind = "exit" /\ o.code = 0

\* The marker file: whether it exists, and its text.
Marker(d) == [exists |-> Exists(d, ".content_hash"), text |-> ReadFile(d, ".content_hash")]

Cached(r) == Returned(r) /\ "cached" \in DOMAIN r /\ r.cached

Succeeded(r) == Returned(r) /\ r.success

IsBuild(call) == call.op = "build"

\* C1: the marker is written only by a build in which the render tool and
\* the tracer both exited with code 0; a build in which either failed or
\* timed out leaves the marker as it was.
C1_MarkerOnlyAfterFullSuccess ==
    [][ /\ (IsBuild(last') /\ Marker(files') # Marker(files))
           => (ToolSucceeded(last'.render) /\ ToolSucceeded(last'.trace))
        /\ (IsBuild(last') /\ (ToolFailed(last'.render) \/ ToolFailed(last'.trace)))
           => Marker(files') = Marker(files) ]_vars

\* C2: after a build of content c in which the render or the trace stage
\* failed, the next build of the same content is not answered from the
\* cache and enters the stages again.
C2_FailedBuildNotCached ==
    [][ ( /\ IsBuild(last) /\ IsBuild(last')
          /\ calls' = calls + 1
          /\ last'.content = last.content
          /\ (ToolFailed(last.render) \/ ToolFailed(last.trace)) )
        => (~Cached(last'.result) /\ last'.tmp) ]_vars

----------------------------------------------------------------------------
(* Properties of the stages *)

IsCall == calls' = calls + 1

RenderError(render) ==
    <<"RMarkdown Render Failed", ":", NL>> \o render.stderr \o <<NL>> \o render.stdout

\* C5: when the rendering engine exits non-zero or times out, the render
\* stage (RmdExecutor.execute, and the render step of the cached build)
\* returns success=false with stderr and stdout combined as the error, and
\* no file of the artifact directory, nor the zip, is created or changed.
C5_FailedRenderTouchesNothing ==
    [][ (IsCall /\ last'.op \in {"render", "build"} /\ ToolFailed(last'.render))
        => ( /\ files' = files
             /\ zip' = zip
             /\ Returned(last'.result)
             /\ ~last'.result.success
             /\ last'.result.error = RenderError(RunCommand(last'.render)) ) ]_vars

\* Witness of C5: a render timed out while the local render and the source
\* copy of another content, published by an earlier render, are in place.
C5_Witness ==
    /\ last.op = "render" /\ last.render.kind = "timeout"
    /\ ~last.result.success
    /\ Exists(files, "notebook_local.html")
    /\ Exists(files, "notebook.Rmd")
    /\ files["notebook.Rmd"] # RmdText(last.content)

\* C6: when the tracer exits non-zero or times out, the trace stage returns
\* success=false with the combined logs and leaves every file of the
\* artifact directory and the zip as they were.
C6_FailedTraceTouchesNothing ==
    [][ (IsCall /\ last'.op = "trace" /\ ToolFailed(last'.trace))
        => LET r4r == RunCommand(last'.trace)
           IN  /\ files' = files
               /\ zip' = zip
               /\ last'.result = [success |-> FALSE,
                                  error |-> <<"r4r failed", ":", NL>> \o r4r.stderr,
                                  logs |-> r4r.stdout \o r4r.stderr] ]_vars

\* Witness of C6: the tracer timed out after an earlier trace had published
\* a container render and a zip.
C6_Witness ==
    /\ last.op = "trace" /\ last.trace.kind = "timeout"
    /\ ~last.result.success
    /\ Exists(files, "notebook_container.html")
    /\ zip.exists

\* C7: while no render stage run has succeeded for the document, the trace
\* stage returns the run-the-notebook-first error, starts no child process
\* and creates no workspace; the source copy exists exactly when some render
\* stage run has succeeded.
C7_TraceRequiresRender ==
    pipeline = "stages" =>
      /\ Exists(files, "notebook.Rmd") <=> everRendered
      /\ (last.op = "trace" /\ ~everRendered)
         => /\ last.result = [success |-> FALSE, error |-> RunNotebookFirst]
            /\ last.procs = <<>>
            /\ ~last.tmp

\* Witness of C7: a trace refused after a render that published its HTML
\* but failed before the source copy was in place.
C7_Witness ==
    /\ last.op = "trace" /\ ~everRendered
    /\ Exists(files, "notebook_local.html")
    /\ last.result.error = RunNotebookFirst

\* A directory holding exactly the renders asked for, as the unit tests of
\* the diff stage arrange one by hand.
Arranged(local, container) ==
    [n \in (IF local THEN {"notebook_local.html"} ELSE {})
           \cup (IF container THEN {"notebook_container.html"} ELSE {})
       |-> <<"html">>]

\* What the diff stage must answer on directory d with the binary present
\* or not: the first unmet precondition in the order local render, container
\* render, diff binary, and the diff tool started exactly when all three hold.
DiffAnswersInOrder(d, binary, result, procs) ==
    LET local == Exists(d, "notebook_local.html")
        container == Exists(d, "notebook_container.html")
        refused(e) == result = [success |-> FALSE, error |-> e]
    IN  /\ ~local => refused(LocalMissing)
        /\ (local /\ ~container) => refused(ContainerMissing)
        /\ (local /\ container /\ ~binary) => refused(BinaryMissing)
        /\ (procs = <<"r-diff">>) <=> (local /\ container /\ binary)
        /\ (procs = <<>>) <=> ~(local /\ container /\ binary)

\* C8: the diff stage reports the first unmet precondition in the order
\* local render, container render, diff binary, each with its own error,
\* and starts the diff tool exactly when all three hold: in every call of
\* the pipeline, and on every hand-arranged directory (local render only,
\* container render only, both, none) whatever the diff tool then does.
C8_DiffPreconditionsInOrder ==
    /\ Cardinality({LocalMissing, ContainerMissing, BinaryMissing}) = 3
    /\ last.op = "diff" =>
         DiffAnswersInOrder(files, last.binary, last.result, last.procs)
    /\ \A l \in BOOLEAN, c \in BOOLEAN, b \in BOOLEAN, do \in ChildOutcomes :
         LET o == RDiffExecute(Arranged(l, c), TRUE, zip,
                               [binary |-> b, diff |-> do, output |-> TRUE,
                                writeFails |-> FALSE])
         IN  DiffAnswersInOrder(Arranged(l, c), b, o.result, o.procs)

\* Witness of C8: both renders exist and the binary is absent.
C8_Witness ==
    /\ last.op = "diff" /\ ~last.binary
    /\ Exists(files, "notebook_local.html")
    /\ Exists(files, "notebook_container.html")
    /\ last.result.error = BinaryMissing

\* The tool a stage is about (for the cached build: the rendering engine).
MainTool(call) ==
    CASE call.op \in {"render", "build"} -> call.render
      [] call.op = "trace" -> call.trace
      [] call.op = "diff" -> call.diff
      [] OTHER -> NoChild

\* C9: for every stage, the result returned when the child process timed
\* out differs from every result returned when it exited by itself with a
\* non-zero code (here: two successive calls of one stage on one text).
C9_TimeoutDistinguishable ==
    [][ ( /\ IsCall
          /\ last'.op = last.op /\ last'.content = last.content
          /\ MainTool(last).kind = "timeout"
          /\ MainTool(last').kind = "exit" /\ MainTool(last').code # 0 )
        => last'.result # last.result ]_vars

\* C10: every stage call returns a structured result with a success flag;
\* none lets an exception reach its caller.
C10_StagesNeverRaise == ~("exception" \in DOMAIN last.result)

----------------------------------------------------------------------------
(* Properties of the child processes of a stage *)

\* C11: in the render stage the installation of the detected packages is
\* best effort: whatever the installer did (non-zero exit, failure to
\* start), the rendering engine is started and the success flag is that of
\* the rendering engine (calls without a filesystem fault).
C11_InstallBestEffort ==
    ( /\ last.op = "render"
      /\ last.install.kind \in {"exit", "exception"}
      /\ last.fault \in {"none", "install"} )
    => /\ Started(last, "render")
       /\ Returned(last.result)
       /\ last.result.success = ToolSucceeded(last.render)

\* C12: every stage call comes back, even when a child process it started
\* never exits by itself.
C12_EveryCallReturns == ~InProgress(last.result)

ToolOf(call, name) ==
    CASE name = "render" -> call.render
      [] name = "r4r" -> call.trace
      [] name = "r-diff" -> call.diff
      [] OTHER -> call.install

StageTools == {"render", "r4r", "r-diff"}

\* No child process is started twice, and none after a failed tool.
SingleAttempt(call) ==
    /\ \A j, k \in 1..Len(call.procs) : call.procs[j] = call.procs[k] => j = k
    /\ \A k \in 1..Len(call.procs) :
         (call.procs[k] \in StageTools /\ ToolFailed(ToolOf(call, call.procs[k])))
         => k = Len(call.procs)

\* C14: a stage starts its tool at most once, and once the tool has failed
\* or timed out it starts no further child process and returns at once: a
\* failure, with the artifacts as they were.
C14_NoRetryImmediateReturn ==
    [][ IsCall =>
          /\ SingleAttempt(last')
          /\ (\E name \in StageTools : ToolFailed(ToolOf(last', name)))
             => /\ Returned(last'.result) /\ ~last'.result.success
                /\ files' = files /\ zip' = zip ]_vars

\* The part of C14 about retries, which holds in every call.
NoStageRetries == SingleAttempt(last)

----------------------------------------------------------------------------
(* Properties of overlapping runs *)

OnSameDocument(t, u) == NotebookDir(runs[t].doc) = NotebookDir(runs[u].doc)

\* Both threads are in a cached build of one document, past a cache check
\* that missed.
BothMissed ==
    /\ runs[1].op = "build" /\ runs[2].op = "build"
    /\ OnSameDocument(1, 2)
    /\ \A t \in Threads : runs[t].pc # "check" /\ ~runs[t].hit

\* C15: builds of one document are not mutually excluded: a build that is
\* under way can always take its next step, whatever the other thread is
\* doing, and two builds of one document whose cache checks both missed
\* write into one directory.
C15_BuildsNotExcluded ==
    /\ \A t \in Threads :
         (runs[t].op = "build" /\ runs[t].pc # "done") => ENABLED BuildStep(t)
    /\ BothMissed => NotebookDir(runs[1].doc) = NotebookDir(runs[2].doc)

\* Witness of C15: both cache checks missed, neither build has written the
\* marker yet, and both have written into the directory.
C15_Witness ==
    /\ BothMissed
    /\ \A t \in Threads : runs[t].pc \in {"html", "rmd", "hash"}
    /\ ~Exists(stores[NotebookDir(runs[1].doc)].files, ".content_hash")

\* Two builds of one document with different texts have both finished; the
\* marker is the digest of the text of thread t and the stored render is
\* that of the text of thread u.
MarkerOfOneRenderOfOther(t, u) ==
    LET st == stores[NotebookDir(runs[t].doc)]
    IN  /\ runs[t].op = "build" /\ runs[u].op = "build"
        /\ OnSameDocument(t, u)
        /\ runs[t].content # runs[u].content
        /\ runs[t].pc = "done" /\ runs[u].pc = "done"
        /\ ~runs[t].hit /\ ~runs[u].hit
        /\ ReadFile(st.files, ".content_hash") = ComputeContentHash(runs[t].content)
        /\ ReadFile(st.files, "notebook.html") = HtmlOf(runs[u].content)

\* C16: once two overlapping builds of one document have left the marker of
\* one text with the render of the other, a later build of the marker's
\* text is answered from the cache, with the other text's render.
C16_StaleCacheServed ==
    \A t \in Threads, u \in Threads :
      MarkerOfOneRenderOfOther(t, u) =>
        LET st == stores[NotebookDir(runs[t].doc)]
            later == ExecuteRmd(st.files, st.dir, st.zip, runs[t].content, NoInput)
        IN  /\ Cached(later.result)
            /\ later.procs = <<>>
            /\ later.result.html = HtmlOf(runs[u].content)
            /\ later.result.html # HtmlOf(runs[t].content)

\* Witness of C16: the marker of one text with the render of the other.
C16_Witness == MarkerOfOneRenderOfOther(1, 2)

\* What the call of thread t leaves when it is made alone.
Alone(t) ==
    LET r == runs[t]
        b == r.before
        o == CASE r.op = "build" ->
                    ExecuteRmd(b.files, b.dir, b.zip, r.content,
                               [Rendered EXCEPT !.html = TRUE, !.trace = Exit0,
                                                !.tree = BuildTree(r.content)])
               [] r.op = "render" ->
                    RmdExecute(b.files, b.dir, b.zip, r.content,
                               [install |-> Exit0, render |-> Exit0, html |-> TRUE,
                                fail |-> "none"])
               [] OTHER ->
                    R4RExecute(b.files, b.dir, b.zip,
                               [trace |-> Exit0, tree |-> TraceTree(StoredSource(b.files)),
                                fail |-> "none", zipFails |-> FALSE])
    IN  [files |-> o.files, dir |-> o.dir, zip |-> o.zip]

----------------------------------------------------------------------------
(* Properties of the metrics extraction and of the zip packaging *)

\* The value an extraction yields from its own file.
OwnPackages(out) == IF out.script.state = "readable" THEN RPackages(out.script.text) ELSE {}

OwnLibs(out) ==
    IF out.dockerfile.state = "readable" THEN SystemLibs(out.dockerfile.text) ELSE {}

OwnCount(out) == IF out.archive.state = "readable" THEN Len(out.archive.text) ELSE 0

\* C18: the metrics extraction never raises and always returns the three
\* metrics: an extraction whose file is absent, unreadable or malformed
\* yields its default, the two others the values of their own files.
C18_MetricsNeverRaise ==
    answer.kind = "metrics" =>
      /\ ~IsRaised(answer.value)
      /\ DOMAIN answer.value = {"r_packages", "system_libs", "files_accessed"}
      /\ answer.value.r_packages = OwnPackages(given)
      /\ answer.value.system_libs = OwnLibs(given)
      /\ answer.value.files_accessed = OwnCount(given)

\* The argument lists of the install invocations of a Dockerfile from word
\* pos on: the words after "apt-get install" up to the next separator.
RECURSIVE InstallArguments(_, _)
InstallArguments(t, pos) ==
    LET n == Len(t)
        starts == {i \in pos..(n - 1) : t[i] = "apt-get" /\ t[i + 1] = "install"}
    IN  IF starts = {} THEN {}
        ELSE LET i == Min(starts)
                 m == Min({x \in (i + 2)..(n + 1) : x = n + 1 \/ t[x] \in {"&&", ";", NL}})
             IN  {SubSeq(t, i + 2, m - 1)}
                   \cup (IF m >= n THEN {} ELSE InstallArguments(t, m + 1))

\* Flags and stopwords dropped, architecture suffix and version pin removed.
LibrariesOf(words) ==
    {w \in {"curl", "libxml2", "pandoc"} :
       \E k \in 1..Len(words) :
         words[k] \in {w, IF w = "libxml2" THEN "libxml2:amd64" ELSE "pandoc=3.1.3"}}

\* C19: the system libraries are those of the argument list of every
\* install invocation of the Dockerfile, up to the next separator; the
\* Dockerfile of the example yields curl, libxml2 and pandoc.
C19_SystemLibsOfInstallArguments ==
    (answer.kind = "metrics" /\ ~IsRaised(answer.value)
       /\ given.dockerfile.state = "readable")
    => answer.value.system_libs
         = UNION {LibrariesOf(args) :
                    args \in InstallArguments(Flatten(given.dockerfile.text), 1)}

\* The example of C19, which holds.
ExampleLibs == SystemLibs(ExampleDockerfile) = {"curl", "libxml2", "pandoc"}

----------------------------------------------------------------------------
(* ReproducibilityAnalyzer: the static scan of a source text *)

(***************************************************************************)
(* A content is a sequence of lines and a line a sequence of words: the    *)
(* head of a call ("rnorm("), an identifier, a quoted literal, the comment *)
(* sign "#" or the indentation " ".  A regular expression is modelled by   *)
(* the words of the vocabulary it matches, and re.sub by the word it       *)
(* leaves in the place of each matching word.                              *)
(***************************************************************************)

\* Number of lines of the header that precedes the body of a source text.
MaxHeader == 6

\* rmd_content.split("\n"): the empty content is one empty line.
SplitLines(content) == IF content = <<>> THEN << <<>> >> ELSE content

\* line.strip().startswith("#")
IsComment(line) == Strip(line) # <<>> /\ Head(Strip(line)) = "#"

RECURSIVE Concat(_)
Concat(lists) == IF lists = <<>> THEN <<>> ELSE Head(lists) \o Concat(Tail(lists))

MaskToken == "***SECRET***"

\* The patterns of analyze and of its helpers, each with the words it
\* matches.
Matching(pattern) ==
    CASE pattern = "sample" -> {"sample("}
      [] pattern = "rnorm" -> {"rnorm("}
      [] pattern = "runif" -> {"runif("}
      [] pattern = "rbinom" -> {"rbinom("}
      [] pattern = "sample_n" -> {"sample_n("}
      [] pattern = "timestamp" -> {"Sys.time(", "Sys.Date("}
      [] pattern = "path" -> {"'/tmp/a'", "'/srv/http'"}
      [] pattern = "download" -> {"download.file(", "url("}
      [] pattern = "install" -> {"install.packages("}
      [] pattern = "setwd" -> {"setwd("}
      [] pattern = "interactive" -> {"View(", "browser("}
      [] pattern = "sk_live" -> {"sk_live_KEY", "api_key='sk_live_KEY'"}
      [] pattern = "assigned" -> {"secret='KEY'", "api_key='sk_live_KEY'"}

\* re.search(pattern, line)
Search(pattern, line) == \E i \in 1..Len(line) : line[i] \in Matching(pattern)

\* re.sub(p, "***SECRET***", code): the key pattern matches inside the
\* quotes of an assignment, the assignment pattern matches it whole.
Sub(p, code) ==
    [i \in 1..Len(code) |->
       IF code[i] \notin Matching(p) THEN code[i]
       ELSE IF p = "sk_live" /\ code[i] = "api_key='sk_live_KEY'"
       THEN "api_key='***SECRET***'"
       ELSE MaskToken]

\* "set.seed" in line
HasSeedText(line) == \E i \in 1..Len(line) : line[i] \in {"set.seed(", "offset.seed"}

\* Mutant of NewList: the list of the earlier call is kept.
NewList_Kept(earlier) == earlier

\* found = []: each call of a helper starts from an empty list, whatever
\* the earlier calls found.
NewList(earlier) == <<>>

Entry(line_num, code) == [line_number |-> line_num - 6, code |-> code]

RandomPatterns == <<"sample", "rnorm", "runif", "rbinom", "sample_n">>

\* _detect_random_with_lines(lines): one entry for each pattern a line
\* matches.
DetectRandomWithLines(earlier, lines) ==
    NewList(earlier) \o
    Concat([n \in 1..Len(lines) |->
              IF IsComment(lines[n]) THEN <<>>
              ELSE Concat([k \in 1..Len(RandomPatterns) |->
                             IF Search(RandomPatterns[k], lines[n])
                             THEN <<Entry(n, Strip(lines[n]))>> ELSE <<>>])])

\* _find_pattern_lines(lines, pattern)
FindPatternLines(earlier, lines, pattern) ==
    NewList(earlier) \o
    Concat([n \in 1..Len(lines) |->
              IF ~IsComment(lines[n]) /\ Search(pattern, lines[n])
              THEN <<Entry(n, Strip(lines[n]))>> ELSE <<>>])

\* "library(" in line or "require(" in line
HasInclude(line) ==
    \E i \in 1..Len(line) :
       line[i] \in {"library(ggplot2)", "library(tidyr)", "library(dplyr)",
                    "require('dplyr')", "require(ggplot2)"}

\* "://" in match or "http" in match
IsUrl(match) == match = "'/srv/http'"

\* _find_absolute_paths(lines): one entry for each path of a line.
FindAbsolutePaths(earlier, lines) ==
    NewList(earlier) \o
    Concat([n \in 1..Len(lines) |->
              IF IsComment(lines[n]) \/ HasInclude(lines[n]) THEN <<>>
              ELSE Concat([i \in 1..Len(lines[n]) |->
                             IF lines[n][i] \in Matching("path") /\ ~IsUrl(lines[n][i])
                             THEN <<[line_number |-> n - 6, code |-> Strip(lines[n]),
                                     match |-> lines[n][i]]>>
                             ELSE <<>>])])

SecretPatterns == <<"sk_live", "assigned">>

\* _find_secrets(lines): one entry for each pattern a line matches, with
\* the matches of that pattern masked.
FindSecrets(earlier, lines) ==
    NewList(earlier) \o
    Concat([n \in 1..Len(lines) |->
              IF IsComment(lines[n]) THEN <<>>
              ELSE Concat([k \in 1..Len(SecretPatterns) |->
                             IF Search(SecretPatterns[k], lines[n])
                             THEN <<Entry(n, Sub(SecretPatterns[k], Strip(lines[n])))>>
                             ELSE <<>>])])

\* if found: issues.append({...}); details and fix are fixed texts of the
\* category.
Issue(category, severity, title, found) ==
    IF found = <<>> THEN <<>>
    ELSE <<[category |-> category, severity |-> severity, title |-> title,
            lines |-> found]>>

EmptyReport == [issues |-> <<>>, total_issues |-> 0]

\* The entries an earlier report holds for a category.
LinesOf(report, category) ==
    Concat([k \in 1..Len(report.issues) |->
              IF report.issues[k].category = category
              THEN report.issues[k].lines ELSE <<>>])

\* ReproducibilityAnalyzer.analyze(rmd_content); earlier is the report of
\* the call before.
AnalyzeContent(earlier, rmd_content) ==
    LET lines == SplitLines(rmd_content)
        random_issues == DetectRandomWithLines(LinesOf(earlier, "randomness"), lines)
        has_seed == \E n \in 1..Len(lines) : HasSeedText(lines[n])
        issues ==
            Issue("randomness", "high", "Missing set.seed()",
                  IF has_seed THEN <<>> ELSE random_issues)
            \o Issue("timestamp", "medium", "Time-dependent code",
                     FindPatternLines(LinesOf(earlier, "timestamp"), lines, "timestamp"))
            \o Issue("paths", "high", "Absolute file paths",
                     FindAbsolutePaths(LinesOf(earlier, "paths"), lines))
            \o Issue("external_data", "medium", "External data sources",
                     FindPatternLines(LinesOf(earlier, "external_data"), lines, "download"))
            \o Issue("installation", "high", "Hardcoded Package Install",
                     FindPatternLines(LinesOf(earlier, "installation"), lines, "install"))
            \o Issue("environment", "high", "Changing Working Directory",
                     FindPatternLines(LinesOf(earlier, "environment"), lines, "setwd"))
            \o Issue("interactive", "high", "Interactive Command Detected",
                     FindPatternLines(LinesOf(earlier, "interactive"), lines, "interactive"))
            \o Issue("security", "critical", "Potential API Key / Secret",
                     FindSecrets(LinesOf(earlier, "security"), lines))
    IN  [issues |-> issues,
         total_issues |-> Len(Concat([k \in 1..Len(issues) |-> issues[k].lines]))]

----------------------------------------------------------------------------
(* RPackageManager.detect_packages_from_content *)

\* Number of lines of the contents given to the package detection.
MaxIncludes == 3

\* The name the pattern captures from an include call.
Captured(word) ==
    CASE word \in {"library(ggplot2)", "require(ggplot2)"} -> "ggplot2"
      [] word \in {"library(dplyr)", "require('dplyr')"} -> "dplyr"
      [] word = "library(tidyr)" -> "tidyr"

\* re.findall(pattern, content): the names in the order of the calls,
\* comment lines included.
FindIncludes(content) ==
    Concat([n \in 1..Len(content) |->
              Concat([i \in 1..Len(content[n]) |->
                        IF HasInclude(<<content[n][i]>>)
                        THEN <<Captured(content[n][i])>> ELSE <<>>])])

\* The names of the vocabulary in the order of Python's string comparison.
NameOrder == <<"dplyr", "ggplot2", "tidyr">>

\* sorted(list(set(packages)))
SortedSet(packages) ==
    SelectSeq(NameOrder, LAMBDA name : \E i \in 1..Len(packages) : packages[i] = name)

\* Mutant of DetectPackagesFromContent: the matches as found.
DetectPackagesFromContent_AsFound(content) == FindIncludes(content)

\* detect_packages_from_content(content), the same in RExecutor
DetectPackagesFromContent(content) ==
    IF content = <<>> THEN <<>> ELSE SortedSet(FindIncludes(content))

----------------------------------------------------------------------------
(* Scans and package detections of texts, in any number and order *)

ScanLines ==
    {<<w>> : w \in {"x", "rnorm(", "sample(", "sample_n(", "set.seed(", "offset.seed",
                    "Sys.time(", "system(", "system2(", "sk_live_KEY", "secret='KEY'",
                    "api_key='sk_live_KEY'", "'/tmp/a'", "'/srv/http'",
                    "download.file(", "install.packages(", "setwd(", "View("}}
    \cup {<<>>, <<"#", "rnorm(">>, <<"#", "set.seed(">>, <<" ", "#", "sk_live_KEY">>,
          <<"#", "system(">>, <<" ", "rnorm(", " ">>, <<"rnorm(", "sample(">>,
          <<"Sys.time(", "sk_live_KEY">>, <<"sk_live_KEY", "secret='KEY'">>,
          <<"library(ggplot2)", "'/tmp/a'">>}

SeedLines == {<<"set.seed(">>, <<"offset.seed">>, <<"#", "set.seed(">>, <<"x">>}

ScanBodies ==
    {<<>>} \cup {<<l>> : l \in ScanLines}
    \cup {<<l, m>> : l \in SeedLines, m \in ScanLines}
    \cup {<<l, m>> : l \in {<<"rnorm(">>, <<"rnorm(", "sample(">>}, m \in SeedLines}

\* A header of blank lines, then the body.
SourceTexts ==
    {[n \in 1..h |-> <<>>] \o b : h \in {0, MaxHeader}, b \in ScanBodies}

IncludeLines ==
    {<<"library(ggplot2)">>, <<"require('dplyr')">>, <<"library(tidyr)">>,
     <<"#", "library(dplyr)">>}

IncludeTexts ==
    UNION {[1..n -> IncludeLines] : n \in 0..MaxIncludes}

InitScan ==
    /\ pipeline = "scan"
    /\ files = EmptyDir
    /\ dir = FALSE
    /\ zip = NoZip
    /\ last = [op |-> "none", content |-> 0, install |-> NoChild, render |-> NoChild,
               trace |-> NoChild, diff |-> NoChild, binary |-> TRUE, fault |-> "none",
               result |-> [success |-> TRUE], procs |-> <<>>, tmp |-> FALSE,
               workspace |-> FALSE, output |-> FALSE,
               tree |-> EmptyDir]
    /\ calls = 0
    /\ everRendered = FALSE
    /\ given = NoFiles
    /\ answer = NoAnswer
    /\ stores = NoStores
    /\ runs = NoRuns
    /\ db = EmptyDb

\* analyzer.analyze(S) on the one analyzer of the executor; again records
\* that S is also the text of the scan before.
Scan ==
    \E S \in SourceTexts :
       /\ given' = [kind |-> "source", text |-> S,
                    again |-> given.kind = "source" /\ given.text = S]
       /\ answer' = [kind |-> "report",
                     value |-> AnalyzeContent(IF answer.kind = "report" THEN answer.value
                                              ELSE EmptyReport, S)]
       /\ UNCHANGED <<pipeline, files, dir, zip, last, calls, everRendered, stores, runs,
                      db>>

\* package_manager.detect_packages_from_content(S)
Detect ==
    \E S \in IncludeTexts :
       /\ given' = [kind |-> "content", text |-> S]
       /\ answer' = [kind |-> "packages", value |-> DetectPackagesFromContent(S)]
       /\ UNCHANGED <<pipeline, files, dir, zip, last, calls, everRendered, stores, runs,
                      db>>

NextScan == Scan \/ Detect

SpecScan == InitScan /\ [][NextScan]_vars

----------------------------------------------------------------------------
(* Properties of the static scan *)

RandomCalls == {"sample(", "rnorm(", "runif(", "rbinom(", "sample_n("}

Scanned == answer.kind = "report"

ScannedLines == SplitLines(given.text)

\* The lines of the scanned text that are no comment and hold one of words.
LinesHolding(words) ==
    {n \in 1..Len(ScannedLines) :
       /\ ~IsComment(ScannedLines[n])
       /\ \E i \in 1..Len(ScannedLines[n]) : ScannedLines[n][i] \in words}

\* A call of set.seed on any line, a comment line included.
SeedCalled ==
    \E n \in 1..Len(ScannedLines) :
       \E i \in 1..Len(ScannedLines[n]) : ScannedLines[n][i] = "set.seed("

IssuesOf(category) ==
    {k \in 1..Len(answer.value.issues) : answer.value.issues[k].category = category}

\* C21: a text with a random call on a non-comment line and no seed call
\* gets exactly one randomness issue, which has an entry for every such
\* line; a text with a seed call gets no randomness issue.
C21_MissingSeedIssue ==
    Scanned =>
      /\ (LinesHolding(RandomCalls) # {} /\ ~SeedCalled) =>
           /\ Cardinality(IssuesOf("randomness")) = 1
           /\ \A k \in IssuesOf("randomness"), n \in LinesHolding(RandomCalls) :
                \E j \in 1..Len(answer.value.issues[k].lines) :
                   answer.value.issues[k].lines[j].code = Strip(ScannedLines[n])
      /\ SeedCalled => IssuesOf("randomness") = {}

\* The words a credential pattern matches.
Credentials == Matching("sk_live") \cup Matching("assigned")

\* C22: no code snippet of any issue of the report holds a credential.
C22_SecretsMasked ==
    Scanned =>
      \A k \in 1..Len(answer.value.issues) :
         \A j \in 1..Len(answer.value.issues[k].lines) :
            \A i \in 1..Len(answer.value.issues[k].lines[j].code) :
               answer.value.issues[k].lines[j].code[i] \notin Credentials

\* C23: every issue of the report has a line entry, and every line entry a
\* line number greater than 0.
C23_LineNumbersPositive ==
    Scanned =>
      \A k \in 1..Len(answer.value.issues) :
         /\ Len(answer.value.issues[k].lines) > 0
         /\ \A j \in 1..Len(answer.value.issues[k].lines) :
               answer.value.issues[k].lines[j].line_number > 0

\* The words of the eight titles, in lower case.
TitleWords(title) ==
    CASE title = "Missing set.seed()" -> {"missing", "set.seed()"}
      [] title = "Time-dependent code" -> {"time-dependent", "code"}
      [] title = "Absolute file paths" -> {"absolute", "file", "paths"}
      [] title = "External data sources" -> {"external", "data", "sources"}
      [] title = "Hardcoded Package Install" -> {"hardcoded", "package", "install"}
      [] title = "Changing Working Directory" -> {"changing", "working", "directory"}
      [] title = "Interactive Command Detected" -> {"interactive", "command", "detected"}
      [] title = "Potential API Key / Secret" -> {"potential", "api", "key", "/", "secret"}

\* C24: a text with a system() or system2() call on a non-comment line
\* gets an issue whose title mentions system calls.
C24_SystemCallsReported ==
    (Scanned /\ LinesHolding({"system(", "system2("}) # {}) =>
      \E k \in 1..Len(answer.value.issues) :
         "system" \in TitleWords(answer.value.issues[k].title)

\* C25: the report of a scan is the report a new analyzer gives for the
\* text, whatever was scanned before, and a scan of the text of the scan
\* before returns the report again.
C25_ScanDeterministic ==
    /\ [](Scanned => answer.value = AnalyzeContent(EmptyReport, given.text))
    /\ [][(Scanned /\ given'.kind = "source" /\ given'.again) => answer' = answer]_vars

\* A text with issues has just been scanned for the second time in a row.
C25_Witness ==
    /\ Scanned /\ given.again
    /\ answer.value.total_issues >= 2
    /\ Len(answer.value.issues) >= 2

----------------------------------------------------------------------------
(* Properties of the package detection *)

Detected == answer.kind = "packages"

\* The names of the include calls of a content.
Included(content) ==
    {Captured(content[n][i]) :
       <<n, i>> \in {p \in (1..Len(content)) \X (1..2) :
                       p[2] <= Len(content[p[1]]) /\ HasInclude(<<content[p[1]][p[2]]>>)}}

NameRank(name) == CHOOSE r \in 1..Len(NameOrder) : NameOrder[r] = name

\* C26: the detected list is sorted and without duplicates, the same for
\* every content with the same include calls in any order and number, and
\* empty for the empty content.
C26_DetectSortedSet ==
    Detected =>
      /\ \A i, j \in 1..Len(answer.value) :
            i < j => NameRank(answer.value[i]) < NameRank(answer.value[j])
      /\ \A T \in IncludeTexts :
            Included(T) = Included(given.text) =>
              DetectPackagesFromContent(T) = answer.value
      /\ given.text = <<>> => answer.value = <<>>

\* Include calls out of order, one of them twice.
C26_Witness ==
    /\ Detected
    /\ given.text = <<<<"library(tidyr)">>, <<"require('dplyr')">>, <<"library(tidyr)">>>>
    /\ answer.value = <<"dplyr", "tidyr">>

----------------------------------------------------------------------------
(* Lifecycle of the artifact directory under the stage calls *)

\* C27: as long as no render call has succeeded, no stage call creates the
\* artifact directory or a file in it; a stage call changes the files only
\* when it succeeds; no stage call removes a file.
C27_BundleLifecycle ==
    [][pipeline = "stages" =>
         /\ ~everRendered' => (~dir' /\ files' = EmptyDir)
         /\ files' # files => (Returned(last'.result) /\ last'.result.success)
         /\ \A name \in DOMAIN files : name \in DOMAIN files']_vars

----------------------------------------------------------------------------
(* NotebookViewSet: the API layer *)

(***************************************************************************)
(* A request is made by one of two users or without credentials.  Every    *)
(* handler is a function of the tables and of the request that yields the  *)
(* tables after the request and the response: its status, the data it      *)
(* carries and the stage it started.                                       *)
(***************************************************************************)

\* Number of Execution rows of a notebook.
MaxExecutions == 1

Users == {"u1", "u2"}

Anonymous == "anon"

\* request.user.is_authenticated
IsAuthenticated(who) == who \in Users

Payloads ==
    {[title |-> t[1], content |-> t[2], is_public |-> v] :
       t \in {<<"t1", "c1">>, <<"t2", "c2">>}, v \in {"keep", "public", "private"}}

\* An error body, or no body.
NoData == [kind |-> "none"]

Respond(d, status, data, stage) ==
    [db |-> d, answer |-> [status |-> status, data |-> data, stage |-> stage]]

Refuse(d, status) == Respond(d, status, NoData, "none")

HasRow(d, id) == d.notebooks[id].state = "row"

\* The HTTP method of an action.
Method(action) ==
    CASE action \in {"list", "retrieve", "download", "download_package", "executions",
                     "reproducibility"} -> "GET"
      [] action \in {"create", "execute", "generate_package", "generate_diff",
                     "toggle_public"} -> "POST"
      [] action = "update" -> "PUT"
      [] action = "destroy" -> "DELETE"

\* NotebookViewSet.get_permissions
GetPermissions(action) ==
    IF action \in {"retrieve", "list", "executions"} THEN {"AllowAny"}
    ELSE {"IsAuthenticated", "IsOwnerOrReadOnlyIfPublic"}

\* check_permissions: IsAuthenticated is the one class with a has_permission
\* that can refuse.
HasPermission(action, who) ==
    "IsAuthenticated" \in GetPermissions(action) => IsAuthenticated(who)

\* The status of a refusal: 401 without credentials, 403 with.
Denied(who) == IF IsAuthenticated(who) THEN 403 ELSE 401

\* Mutant of GetQueryset: every notebook.
GetQueryset_All(d, who) == {id \in NotebookIds : HasRow(d, id)}

\* NotebookViewSet.get_queryset
GetQueryset(d, who) ==
    {id \in NotebookIds :
       /\ HasRow(d, id)
       /\ IF IsAuthenticated(who)
          THEN d.notebooks[id].author = who \/ d.notebooks[id].is_public
          ELSE d.notebooks[id].is_public}

\* Mutant of HasObjectPermission: a public notebook is open to every method.
HasObjectPermission_IfPublic(method, who, obj) == obj.is_public \/ obj.author = who

\* IsOwnerOrReadOnlyIfPublic.has_object_permission
HasObjectPermission(method, who, obj) ==
    IF method \in {"GET", "HEAD", "OPTIONS"} /\ obj.is_public THEN TRUE
    ELSE obj.author = who

\* get_object: 404 outside the queryset, a refusal when an object permission
\* of the action refuses, 200 when the notebook is handed to the handler.
GetObject(action, who, d, id) ==
    IF id \notin GetQueryset(d, who) THEN 404
    ELSE IF /\ "IsOwnerOrReadOnlyIfPublic" \in GetPermissions(action)
            /\ ~HasObjectPermission(Method(action), who, d.notebooks[id])
    THEN Denied(who)
    ELSE 200

Serialized(d, id) ==
    [kind |-> "notebook", id |-> id, row |-> d.notebooks[id],
     analysis |-> d.analysis[id], execution_count |-> d.executions[id]]

\* list
List(d, who) ==
    Respond(d, 200,
            [kind |-> "list",
             rows |-> [id \in GetQueryset(d, who) |-> Serialized(d, id)]],
            "none")

\* create and perform_create: the author is the requester.
Create(d, who, id, data) ==
    IF ~HasPermission("create", who) THEN Refuse(d, Denied(who))
    ELSE LET made == [d EXCEPT !.notebooks[id] =
                                  [state |-> "row", author |-> who, title |-> data.title,
                                   content |-> data.content,
                                   is_public |-> data.is_public = "public"]]
         IN  Respond(made, 201, Serialized(made, id), "none")

\* NotebookViewSet.retrieve
Retrieve(d, who, id) ==
    IF GetObject("retrieve", who, d, id) # 200
    THEN Refuse(d, GetObject("retrieve", who, d, id))
    ELSE IF ~d.notebooks[id].is_public /\ ~IsAuthenticated(who) THEN Refuse(d, 401)
    ELSE IF ~d.notebooks[id].is_public /\ d.notebooks[id].author # who THEN Refuse(d, 403)
    ELSE Respond(d, 200, Serialized(d, id), "none")

\* update: title, content and is_public are the writable fields.
Update(d, who, id, data) ==
    IF ~HasPermission("update", who) THEN Refuse(d, Denied(who))
    ELSE IF GetObject("update", who, d, id) # 200
    THEN Refuse(d, GetObject("update", who, d, id))
    ELSE LET saved == [d EXCEPT !.notebooks[id].title = data.title,
                                !.notebooks[id].content = data.content,
                                !.notebooks[id].is_public =
                                   IF data.is_public = "keep" THEN @
                                   ELSE data.is_public = "public"]
         IN  Respond(saved, 200, Serialized(saved, id), "none")

\* destroy: the rows of the notebook go with it.
Destroy(d, who, id) ==
    IF ~HasPermission("destroy", who) THEN Refuse(d, Denied(who))
    ELSE IF GetObject("destroy", who, d, id) # 200
    THEN Refuse(d, GetObject("destroy", who, d, id))
    ELSE Respond([d EXCEPT !.notebooks[id] = [state |-> "deleted"],
                           !.executions[id] = 0, !.analysis[id] = "none"],
                 204, NoData, "none")

StageOf(action) ==
    CASE action = "execute" -> "render"
      [] action = "generate_package" -> "trace"
      [] action = "generate_diff" -> "diff"

\* The stage of the action is run on the notebook: execute records an
\* Execution row, and a stage that succeeds writes the analysis row.
RunStage(action, d, id, outcome) ==
    LET e == IF action = "execute"
             THEN [d EXCEPT !.executions[id] = @ + 1] ELSE d
    IN  IF outcome = "exception"
        THEN Respond(e, 500, NoData, StageOf(action))
        ELSE IF outcome = "failure"
        THEN Respond(e, IF action = "execute" THEN 400 ELSE 200,
                     [kind |-> "result", success |-> FALSE], StageOf(action))
        ELSE Respond([e EXCEPT !.analysis[id] = action], 200,
                     [kind |-> "result", success |-> TRUE], StageOf(action))

\* Mutant of StageAction: the stage is run for whoever asks.
StageAction_Unchecked(action, d, who, id, outcome) ==
    IF HasRow(d, id) THEN RunStage(action, d, id, outcome) ELSE Refuse(d, 404)

\* execute, generate_package, generate_diff
StageAction(action, d, who, id, outcome) ==
    IF ~HasPermission(action, who) THEN Refuse(d, Denied(who))
    ELSE IF GetObject(action, who, d, id) # 200
    THEN Refuse(d, GetObject(action, who, d, id))
    ELSE IF d.notebooks[id].author # who THEN Refuse(d, 403)
    ELSE RunStage(action, d, id, outcome)

\* download; download_package, where zipped says that the package exists.
DownloadAction(action, d, who, id, zipped) ==
    IF ~HasPermission(action, who) THEN Refuse(d, Denied(who))
    ELSE IF GetObject(action, who, d, id) # 200
    THEN Refuse(d, GetObject(action, who, d, id))
    ELSE IF /\ ~d.notebooks[id].is_public
            /\ (~IsAuthenticated(who) \/ d.notebooks[id].author # who)
    THEN Refuse(d, 403)
    ELSE IF action = "download"
    THEN Respond(d, 200, [kind |-> "content", id |-> id,
                          content |-> d.notebooks[id].content], "none")
    ELSE IF ~zipped THEN Refuse(d, 404)
    ELSE Respond(d, 200, [kind |-> "package", id |-> id], "none")

\* executions; reproducibility: Notebook.objects.get(pk=pk), not get_object.
HistoryAction(action, d, who, id) ==
    IF ~HasPermission(action, who) THEN Refuse(d, Denied(who))
    ELSE IF ~HasRow(d, id) THEN Refuse(d, 404)
    ELSE IF /\ ~d.notebooks[id].is_public
            /\ ~(IsAuthenticated(who) /\ d.notebooks[id].author = who)
    THEN Refuse(d, Denied(who))
    ELSE IF action = "executions"
    THEN Respond(d, 200, [kind |-> "executions", id |-> id,
                          count |-> d.executions[id]], "none")
    ELSE IF d.analysis[id] = "none" THEN Refuse(d, 404)
    ELSE Respond(d, 200, [kind |-> "analysis", id |-> id,
                          analysis |-> d.analysis[id]], "none")

\* NotebookViewSet.toggle_public
TogglePublic(d, who, id) ==
    IF ~HasPermission("toggle_public", who) THEN Refuse(d, Denied(who))
    ELSE IF GetObject("toggle_public", who, d, id) # 200
    THEN Refuse(d, GetObject("toggle_public", who, d, id))
    ELSE IF d.notebooks[id].author # who THEN Refuse(d, 403)
    ELSE Respond([d EXCEPT !.notebooks[id].is_public = ~@], 200,
                 [kind |-> "toggled", is_public |-> ~d.notebooks[id].is_public],
                 "none")

InitApi ==
    /\ pipeline = "api"
    /\ files = EmptyDir
    /\ dir = FALSE
    /\ zip = NoZip
    /\ last = [op |-> "none", content |-> 0, install |-> NoChild, render |-> NoChild,
               trace |-> NoChild, diff |-> NoChild, binary |-> TRUE, fault |-> "none",
               result |-> [success |-> TRUE], procs |-> <<>>, tmp |-> FALSE,
               workspace |-> FALSE, output |-> FALSE,
               tree |-> EmptyDir]
    /\ calls = 0
    /\ everRendered = FALSE
    /\ given = NoFiles
    /\ answer = NoAnswer
    /\ stores = NoStores
    /\ runs = NoRuns
    /\ db = EmptyDb

\* One request and its response.
Handle(action, who, id, r) ==
    /\ given' = [kind |-> "request", action |-> action, who |-> who, id |-> id]
    /\ answer' = [kind |-> "response"] @@ r.answer
    /\ db' = r.db
    /\ UNCHANGED <<pipeline, files, dir, zip, last, calls, everRendered, stores, runs>>

ListRequest ==
    \E who \in Users \cup {Anonymous} : Handle("list", who, 0, List(db, who))

\* The new row gets the next primary key; the key of a deleted row is not
\* given again.
CreateRequest ==
    \E who \in Users \cup {Anonymous}, id \in NotebookIds, data \in Payloads :
       /\ db.notebooks[id].state = "missing"
       /\ Handle("create", who, id, Create(db, who, id, data))

RetrieveRequest ==
    \E who \in Users \cup {Anonymous}, id \in NotebookIds :
       Handle("retrieve", who, id, Retrieve(db, who, id))

UpdateRequest ==
    \E who \in Users \cup {Anonymous}, id \in NotebookIds, data \in Payloads :
       Handle("update", who, id, Update(db, who, id, data))

DestroyRequest ==
    \E who \in Users \cup {Anonymous}, id \in NotebookIds :
       Handle("destroy", who, id, Destroy(db, who, id))

StageRequest ==
    \E who \in Users \cup {Anonymous}, id \in NotebookIds,
       action \in {"execute", "generate_package", "generate_diff"},
       outcome \in {"success", "failure", "exception"} :
       /\ action = "execute" => db.executions[id] < MaxExecutions
       /\ Handle(action, who, id, StageAction(action, db, who, id, outcome))

DownloadRequest ==
    \E who \in Users \cup {Anonymous}, id \in NotebookIds,
       action \in {"download", "download_package"}, zipped \in BOOLEAN :
       Handle(action, who, id, DownloadAction(action, db, who, id, zipped))

HistoryRequest ==
    \E who \in Users \cup {Anonymous}, id \in NotebookIds,
       action \in {"executions", "reproducibility"} :
       Handle(action, who, id, HistoryAction(action, db, who, id))

ToggleRequest ==
    \E who \in Users \cup {Anonymous}, id \in NotebookIds :
       Handle("toggle_public", who, id, TogglePublic(db, who, id))

NextApi ==
    \/ ListRequest \/ CreateRequest \/ RetrieveRequest \/ UpdateRequest
    \/ DestroyRequest \/ StageRequest \/ DownloadRequest \/ HistoryRequest
    \/ ToggleRequest

SpecApi == InitApi /\ [][NextApi]_vars

----------------------------------------------------------------------------
(* Properties of the API layer *)

Requested(actions) == given.kind = "request" /\ given.action \in actions

\* The request of the next state is made by someone who is not the author of
\* the notebook it is about.
ByNonAuthor ==
    /\ given'.id \in NotebookIds
    /\ HasRow(db, given'.id)
    /\ db.notebooks[given'.id].author # given'.who

\* C28: an execute, generate_package or generate_diff request by anyone but
\* the author of the notebook starts no stage, creates no Execution row and
\* changes no analysis row.
C28_OwnershipBeforeStage ==
    [][(given'.action \in {"execute", "generate_package", "generate_diff"} /\ ByNonAuthor)
         => /\ answer'.stage = "none"
            /\ db'.executions = db.executions
            /\ db'.analysis = db.analysis]_vars

\* Such a request was refused for each kind of requester: a user on the
\* public notebook of another, and a request without credentials.
C28_Witness ==
    /\ Requested({"execute"})
    /\ HasRow(db, given.id) /\ db.notebooks[given.id].is_public
    /\ given.who \in Users /\ db.notebooks[given.id].author # given.who
    /\ answer.status = 403 /\ db.executions[given.id] = 0

\* The data of the response is data of notebook id.
Discloses(data, id) ==
    \/ data.kind \in {"notebook", "content", "package", "executions", "analysis"}
       /\ data.id = id
    \/ data.kind = "list" /\ id \in DOMAIN data.rows

\* C29: a response to retrieve, list, executions, reproducibility, download
\* or download_package carries no data of a private notebook unless the
\* requester is its author; the requests on the notebook itself are
\* answered 401, 403 or 404.
C29_PrivateNotDisclosed ==
    \A id \in NotebookIds :
       ( /\ Requested({"retrieve", "list", "executions", "reproducibility",
                       "download", "download_package"})
         /\ HasRow(db, id) /\ ~db.notebooks[id].is_public
         /\ db.notebooks[id].author # given.who )
       => /\ ~Discloses(answer.data, id)
          /\ given.id = id => answer.status \in {401, 403, 404}

\* The execution history of a private notebook that has executions was
\* asked for by another user.
C29_Witness ==
    /\ Requested({"executions"})
    /\ given.who \in Users
    /\ HasRow(db, given.id) /\ ~db.notebooks[given.id].is_public
    /\ db.notebooks[given.id].author # given.who
    /\ db.executions[given.id] > 0
    /\ answer.status = 403

ToggledByAuthor(g, a) ==
    g.kind = "request" /\ g.action = "toggle_public" /\ a.status = 200

\* C30: an update, delete or toggle_public request by a user who is not the
\* author is answered 403 or 404 and leaves the notebook as it is; a
\* toggle_public of the author inverts is_public, so that a second one
\* right after it restores the value.
C30_OnlyAuthorChanges ==
    [][ /\ ( /\ given'.action \in {"update", "destroy", "toggle_public"}
             /\ given'.who \in Users
             /\ ByNonAuthor )
          => /\ answer'.status \in {403, 404}
             /\ db'.notebooks = db.notebooks
        /\ ToggledByAuthor(given', answer')
          => /\ db'.notebooks[given'.id].is_public = ~db.notebooks[given'.id].is_public
             /\ answer'.data.is_public = db'.notebooks[given'.id].is_public
        /\ (ToggledByAuthor(given, answer) /\ ToggledByAuthor(given', answer')
            /\ given'.id = given.id)
          => db'.notebooks[given'.id].is_public = ~answer.data.is_public ]_vars

\* Another user asked to update a public notebook and was refused.
C30_Witness ==
    /\ Requested({"update"})
    /\ given.who \in Users
    /\ HasRow(db, given.id) /\ db.notebooks[given.id].is_public
    /\ db.notebooks[given.id].author # given.who
    /\ answer.status = 403

----------------------------------------------------------------------------
(* Further properties of the cached build *)

\* The marker of the artifact directory holds the digest of content c.
MarkerMatches(c) ==
    /\ dir
    /\ ".content_hash" \in DOMAIN files
    /\ Strip(files[".content_hash"]) = ComputeContentHash(c)

\* The stored render exists and is not empty.
RenderStored == "notebook.html" \in DOMAIN files /\ files["notebook.html"] # EmptyText

----------------------------------------------------------------------------
(* One build run, child process by child process *)

(***************************************************************************)
(* RExecutor.execute_rmd step by step on the storage of one document: the  *)
(* cache check, the workspace copy of the source, each _run_command as the *)
(* start of the child and the return of subprocess.run, then the save      *)
(* operations one by one.  alive is the set of children of the run that    *)
(* execute.                                                                *)
(***************************************************************************)

\* Mutant of Reap: a child that outlives the timeout is left to run.
Reap_UnlessTimeout(alive, name, o) == IF o.kind = "timeout" THEN alive ELSE alive \ {name}

\* subprocess.run returns when the child has exited; at the timeout it kills
\* the child and waits for it before raising TimeoutExpired.
Reap(alive, name, o) == alive \ {name}

NewRun(c) ==
    [op |-> "build", doc |-> 1, content |-> c, pc |-> "check", hit |-> FALSE,
     alive |-> {}, install |-> NoChild, render |-> NoChild, r4r |-> NoChild]

\* Where the run goes on when _run_command has returned o for the child.
AfterChild(name, o) ==
    CASE name = "install" -> "render"
      [] name = "render" -> IF RenderPassed(RunCommand(o)) THEN "r4r" ELSE "done"
      [] name = "r4r" -> "makedirs"

\* The child is started; when starting it raises, _run_command returns at
\* once.
SpawnChild(r, name, started) ==
    IF started
    THEN [r EXCEPT !.pc = "wait", !.alive = @ \cup {name}]
    ELSE [r EXCEPT !.pc = AfterChild(name, StartFailure), ![name] = StartFailure]

\* subprocess.run returns: the child exited, or the timeout passed.
ReturnChild(r, name, o) ==
    [r EXCEPT !.pc = AfterChild(name, o), ![name] = o, !.alive = Reap(@, name, o)]

InitRun ==
    /\ pipeline = "run"
    /\ files = EmptyDir
    /\ dir = FALSE
    /\ zip = NoZip
    /\ last = [op |-> "none", content |-> 0, install |-> NoChild, render |-> NoChild,
               trace |-> NoChild, diff |-> NoChild, binary |-> TRUE, fault |-> "none",
               result |-> [success |-> TRUE], procs |-> <<>>, tmp |-> FALSE,
               workspace |-> FALSE, output |-> FALSE,
               tree |-> EmptyDir]
    /\ calls = 1
    /\ everRendered = FALSE
    /\ given = NoFiles
    /\ answer = NoAnswer
    /\ stores = [id \in {1} |-> EmptyStore]
    /\ runs \in {[t \in {1} |-> NewRun(c)] : c \in Contents}
    /\ db = EmptyDb

RunStep(st, r) ==
    /\ stores' = [stores EXCEPT ![1] = st]
    /\ runs' = [runs EXCEPT ![1] = r]
    /\ UNCHANGED <<pipeline, files, dir, zip, last, everRendered, given, answer, db>>

\* The next call on the document, once the one before has returned.
StartRun ==
    /\ runs[1].pc = "done"
    /\ calls < MaxCalls
    /\ calls' = calls + 1
    /\ \E c \in Contents : RunStep(stores[1], NewRun(c))

\* Lines 39-65, then the write of the workspace copy (lines 82-87) and the
\* detection of the packages (line 92).
CheckCache ==
    /\ runs[1].pc = "check"
    /\ UNCHANGED calls
    /\ IF CacheHit(stores[1].files, stores[1].dir, runs[1].content, FALSE)
       THEN RunStep(stores[1], [runs[1] EXCEPT !.pc = "done", !.hit = TRUE])
       ELSE \E written \in BOOLEAN :
              RunStep(stores[1],
                      [runs[1] EXCEPT !.pc = IF ~written THEN "done"
                                             ELSE IF DetectPackages(runs[1].content) # {}
                                             THEN "install" ELSE "render"])

Spawn ==
    /\ runs[1].pc \in {"install", "render", "r4r"}
    /\ UNCHANGED calls
    /\ \E started \in BOOLEAN :
         RunStep(stores[1], SpawnChild(runs[1], runs[1].pc, started))

Return ==
    /\ runs[1].pc = "wait"
    /\ UNCHANGED calls
    /\ \E name \in runs[1].alive, o \in ExitOutcomes \cup {TimeoutOutcome} :
         RunStep(stores[1], ReturnChild(runs[1], name, o))

\* Lines 193-207, one operation at a step; an operation that raises ends
\* the run (lines 211-212).
Save ==
    /\ runs[1].pc \in {"makedirs", "copytree", "html", "rmd", "hash"}
    /\ UNCHANGED calls
    /\ \E raised \in BOOLEAN :
         IF raised
         THEN RunStep(stores[1], [runs[1] EXCEPT !.pc = "done"])
         ELSE RunStep(BuildAdvance(stores[1], runs[1]).store,
                      BuildAdvance(stores[1], runs[1]).run)

NextRun == StartRun \/ CheckCache \/ Spawn \/ Return \/ Save

SpecRun == InitRun /\ [][NextRun]_vars

\* C32: at most one child process of the run executes at a time; the tracer
\* is started only in a run whose rendering engine has exited with code 0;
\* the storage of the document changes only when the tracer of the run has
\* returned and no child executes.
C32_StagesInOrder ==
    /\ [](/\ Cardinality(runs[1].alive) <= 1
          /\ ("r4r" \in runs[1].alive \/ runs[1].r4r # NoChild) =>
               /\ ToolSucceeded(runs[1].render)
               /\ "render" \notin runs[1].alive)
    /\ [][stores' # stores => (runs[1].r4r # NoChild /\ runs[1].alive = {})]_vars

\* A run whose package installation outlived the timeout has rendered,
\* traced and written the marker.
C32_Witness ==
    /\ runs[1].pc = "done" /\ ~runs[1].hit
    /\ runs[1].install.kind = "timeout"
    /\ ToolSucceeded(runs[1].render)
    /\ runs[1].r4r # NoChild
    /\ Exists(stores[1].files, ".content_hash")

----------------------------------------------------------------------------
(* Further properties of the diff stage *)

IsDiff(call) == call.op = "diff"

Renders(d) == [local |-> ReadFile(d, "notebook_local.html"),
               container |-> ReadFile(d, "notebook_container.html"),
               hasLocal |-> Exists(d, "notebook_local.html"),
               hasContainer |-> Exists(d, "notebook_container.html")]

SemanticDiff(d) == [exists |-> Exists(d, "semantic_diff.html"),
                    text |-> ReadFile(d, "semantic_diff.html")]

\* C33: a diff call returns success exactly when the diff tool exited with
\* code 0 and left its output file; after a successful call the stored
\* semantic diff is the diff_html returned; a call that does not succeed
\* leaves the stored semantic diff and both renders as they were.
C33_DiffOutcome ==
    [][(IsDiff(last') /\ IsCall) =>
         /\ Succeeded(last'.result) <=> (ToolSucceeded(last'.diff) /\ last'.output)
         /\ Succeeded(last'.result) =>
              /\ Exists(files', "semantic_diff.html")
              /\ files'["semantic_diff.html"] = last'.result.diff_html
         /\ ~Succeeded(last'.result) =>
              /\ SemanticDiff(files') = SemanticDiff(files)
              /\ Renders(files') = Renders(files)]_vars

\* The same for the calls that return a result.
C33_ReturnedDiffOutcome ==
    [][(IsDiff(last') /\ IsCall /\ Returned(last'.result)) =>
         /\ Succeeded(last'.result) <=> (ToolSucceeded(last'.diff) /\ last'.output)
         /\ Succeeded(last'.result) =>
              /\ Exists(files', "semantic_diff.html")
              /\ files'["semantic_diff.html"] = last'.result.diff_html
         /\ ~Succeeded(last'.result) =>
              /\ SemanticDiff(files') = SemanticDiff(files)
              /\ Renders(files') = Renders(files)]_vars

----------------------------------------------------------------------------
(* Further properties of the trace stage *)

IsTrace(call) == call.op = "trace"

\* C34: after a successful trace the container render of the document and
\* the Dockerfile, Makefile and manifest returned are the files of the
\* output tree of this run, the Dockerfile being the one the system
\* libraries were extracted from; nothing of an earlier trace is returned
\* or kept as the container render.
C34_TraceOfThisRun ==
    [][(IsTrace(last') /\ IsCall /\ Succeeded(last'.result)) =>
         /\ last'.result.dockerfile = ReadFile(last'.tree, "Dockerfile")
         /\ last'.result.makefile = ReadFile(last'.tree, "Makefile")
         /\ last'.result.manifest = ReadJson(last'.tree, "manifest.json")
         /\ last'.result.r4r_data.system_libs = SystemLibs(last'.result.dockerfile)
         /\ ReadFile(files', "notebook_container.html") = ReadFile(last'.tree, TreeHtml)]_vars

\* The same for the traces whose tool left the build descriptors and the
\* rendered HTML in its output tree.
C34_CompleteTreeOfThisRun ==
    [][(IsTrace(last') /\ IsCall /\ Succeeded(last'.result)
          /\ DOMAIN last'.tree = Descriptors \cup {TreeHtml}) =>
         /\ last'.result.dockerfile = ReadFile(last'.tree, "Dockerfile")
         /\ last'.result.makefile = ReadFile(last'.tree, "Makefile")
         /\ last'.result.manifest = ReadJson(last'.tree, "manifest.json")
         /\ last'.result.r4r_data.system_libs = SystemLibs(last'.result.dockerfile)
         /\ ReadFile(files', "notebook_container.html") = ReadFile(last'.tree, TreeHtml)]_vars

----------------------------------------------------------------------------
(* The cached answer over a sequence of builds *)

\* C35: a build of content c answered from the cache returns the HTML
\* rendered from c.
C35_CachedRenderOfContent ==
    (runs[1].pc = "done" /\ runs[1].hit) =>
        CachedResult(stores[1].files, runs[1].content).html = HtmlOf(runs[1].content)

----------------------------------------------------------------------------
(* The execute request, operation by operation *)

(***************************************************************************)
(* NotebookViewSet.execute for requests of the notebook's author, one      *)
(* after the other: the creation of the Execution row, the render stage,   *)
(* the save of the row, the update of the analysis row and the response.   *)
(* db.executions is the Execution table of the notebook, oldest row first; *)
(* runs[1] is the request being handled: the row it created and what the   *)
(* stage gave.  The writes of the Execution row itself do not fail.        *)
(***************************************************************************)

NoRequest == [pc |-> "answered", row |-> 0, stage |-> "none", content |-> 0]

\* Execution.objects.create(notebook=notebook, status="running")
NewExecution ==
    [status |-> "running", completed_at |-> FALSE, html_output |-> EmptyText,
     error_message |-> FALSE]

\* Lines 416-419
Completed(row, html) ==
    [row EXCEPT !.status = "completed", !.completed_at = TRUE, !.html_output = html]

\* Lines 432-435 and 440-443
FailedExecution(row) ==
    [row EXCEPT !.status = "failed", !.completed_at = TRUE, !.error_message = TRUE]

\* Lines 411-438: where the handler goes on when the stage has returned a
\* success, returned a failure, or raised.
AfterStage(stage) ==
    CASE stage = "success" -> "save_completed"
      [] stage = "failure" -> "save_failed"
      [] OTHER -> "except"

InitExecute ==
    /\ pipeline = "execute"
    /\ files = EmptyDir
    /\ dir = FALSE
    /\ zip = NoZip
    /\ last = [op |-> "none", content |-> 0, install |-> NoChild, render |-> NoChild,
               trace |-> NoChild, diff |-> NoChild, binary |-> TRUE, fault |-> "none",
               result |-> [success |-> TRUE], procs |-> <<>>, tmp |-> FALSE,
               workspace |-> FALSE, output |-> FALSE,
               tree |-> EmptyDir]
    /\ calls = 0
    /\ everRendered = FALSE
    /\ given = NoFiles
    /\ answer = NoAnswer
    /\ stores = NoStores
    /\ runs = [t \in {1} |-> NoRequest]
    /\ db = [executions |-> <<>>, analysis |-> "none"]

ExecuteStep(d, r, a) ==
    /\ db' = d
    /\ runs' = [runs EXCEPT ![1] = r]
    /\ answer' = a
    /\ UNCHANGED <<pipeline, files, dir, zip, last, everRendered, given, stores>>

\* Line 409
CreateExecution ==
    /\ runs[1].pc = "answered"
    /\ calls < MaxCalls
    /\ calls' = calls + 1
    /\ \E c \in Contents :
         ExecuteStep([db EXCEPT !.executions = Append(@, NewExecution)],
                     [pc |-> "stage", row |-> Len(db.executions) + 1,
                      stage |-> "none", content |-> c],
                     NoAnswer)

\* Lines 411-414: RmdExecutor.execute returns or raises.
RunRender ==
    /\ runs[1].pc = "stage"
    /\ UNCHANGED calls
    /\ \E stage \in {"success", "failure", "exception"} :
         ExecuteStep(db, [runs[1] EXCEPT !.pc = AfterStage(stage), !.stage = stage], answer)

\* Lines 416-419
SaveCompleted ==
    /\ runs[1].pc = "save_completed"
    /\ UNCHANGED calls
    /\ ExecuteStep([db EXCEPT !.executions[runs[1].row] =
                                  Completed(@, HtmlOf(runs[1].content))],
                   [runs[1] EXCEPT !.pc = "analysis"], answer)

\* Lines 422-430: update_or_create of the analysis row, then the response;
\* when it raises, control passes to the except clause.
SaveAnalysis ==
    /\ runs[1].pc = "analysis"
    /\ UNCHANGED calls
    /\ \E raised \in BOOLEAN :
         IF raised
         THEN ExecuteStep(db, [runs[1] EXCEPT !.pc = "except"], answer)
         ELSE ExecuteStep([db EXCEPT !.analysis = runs[1].content],
                          [runs[1] EXCEPT !.pc = "answered"],
                          [kind |-> "response", status |-> 200])

\* Lines 431-436
SaveFailed ==
    /\ runs[1].pc = "save_failed"
    /\ UNCHANGED calls
    /\ ExecuteStep([db EXCEPT !.executions[runs[1].row] = FailedExecution(@)],
                   [runs[1] EXCEPT !.pc = "answered"],
                   [kind |-> "response", status |-> 400])

\* Lines 438-447
Except ==
    /\ runs[1].pc = "except"
    /\ UNCHANGED calls
    /\ ExecuteStep([db EXCEPT !.executions[runs[1].row] = FailedExecution(@)],
                   [runs[1] EXCEPT !.pc = "answered"],
                   [kind |-> "response", status |-> 500])

NextExecute ==
    CreateExecution \/ RunRender \/ SaveCompleted \/ SaveAnalysis \/ SaveFailed \/ Except

SpecExecute == InitExecute /\ [][NextExecute]_vars

Ended(k) == k # runs[1].row \/ runs[1].pc = "answered"

\* C36: an Execution row is created in status running; once its request is
\* answered it is completed, exactly when the render stage returned success,
\* or failed, with completed_at set, also when the stage raised; a row that
\* is completed or failed keeps its status.
C36_ExecutionLifecycle ==
    /\ [](\A k \in DOMAIN db.executions :
            Ended(k) =>
              /\ db.executions[k].status \in {"completed", "failed"}
              /\ db.executions[k].completed_at
              /\ (k = runs[1].row) =>
                    (db.executions[k].status = "completed" <=> runs[1].stage = "success"))
    /\ [][/\ Len(db'.executions) > Len(db.executions) =>
               db'.executions[Len(db'.executions)].status = "running"
          /\ \A k \in DOMAIN db.executions :
               db.executions[k].status \in {"completed", "failed"} =>
                 db'.executions[k].status = db.executions[k].status]_vars

\* No row is left running by an answered request, a completed row belongs
\* to a stage that returned success, and a failed row stays failed.
C36_NoExecutionLeftRunning ==
    /\ [](\A k \in DOMAIN db.executions :
            Ended(k) =>
              /\ db.executions[k].status \in {"completed", "failed"}
              /\ db.executions[k].completed_at
              /\ (k = runs[1].row /\ db.executions[k].status = "completed") =>
                    runs[1].stage = "success")
    /\ [][/\ Len(db'.executions) > Len(db.executions) =>
               db'.executions[Len(db'.executions)].status = "running"
          /\ \A k \in DOMAIN db.executions :
               db.executions[k].status = "failed" => db'.executions[k].status = "failed"]_vars

----------------------------------------------------------------------------
(* The stages on a document rendered before *)

\* The render of document c in which the installer and the rendering engine
\* exited with code 0 and every file was written.
FirstRender(c) ==
    RmdExecute(EmptyDir, FALSE, NoZip, c,
               [install |-> Exit0, render |-> Exit0, html |-> TRUE, fail |-> "none"])

\* The stage calls made on a document after its first successful render.
InitCompare ==
    /\ pipeline = "stages"
    /\ \E c \in Contents :
         /\ files = FirstRender(c).files
         /\ dir = FirstRender(c).dir
         /\ zip = FirstRender(c).zip
         /\ last = Call("render", c, [NoTools EXCEPT !.install = Exit0, !.render = Exit0],
                        FirstRender(c))
    /\ calls = 0
    /\ everRendered = TRUE
    /\ given = NoFiles
    /\ answer = NoAnswer
    /\ stores = NoStores
    /\ runs = NoRuns
    /\ db = EmptyDb

NextCompare == Render \/ Trace \/ Diff

SpecCompare == InitCompare /\ [][NextCompare]_vars

\* The render is empty or the one made from document c.
LocalRenderOf(html, c) == html = EmptyText \/ html = HtmlOf(c)

ContainerRenderOf(html, c) == html = EmptyText \/ html = TreeFile(TreeHtml, c)

\* C37: when the diff stage starts the diff tool, the local render and the
\* container render it is given were both made from the document of the
\* source copy in the artifact directory.
C37_DiffOfOneSource ==
    [][(IsDiff(last') /\ IsCall /\ Started(last', "r-diff")) =>
         /\ LocalRenderOf(ReadFile(files, "notebook_local.html"), StoredSource(files))
         /\ ContainerRenderOf(ReadFile(files, "notebook_container.html"),
                              StoredSource(files))]_vars

\* The container render is always the one of the source copy of the trace
\* that made it.
C37_ContainerOfTracedSource ==
    [][(IsTrace(last') /\ IsCall /\ Succeeded(last'.result)
          /\ Exists(last'.tree, TreeHtml)) =>
         ContainerRenderOf(ReadFile(files', "notebook_container.html"),
                           StoredSource(files))]_vars

============================================================================
